---- MODULE Spec2Model ----
(***************************************************************************)
(* A model of the ingestion / normalisation core of the personal fitness   *)
(* diary: the per-family transformers (src/src/ingest), the heart-rate     *)
(* batch aggregator and the columnar store writer (src/src/storage).       *)
(*                                                                         *)
(* Conventions.                                                            *)
(*  - A table (pandas DataFrame) is a sequence of rows; the empty table is *)
(*    <<>>.  A row is a record.                                            *)
(*  - An optional value (a JSON key that may be missing, Python None, NaN) *)
(*    is a set with at most one element: {} is "missing", {v} is v.        *)
(*  - A timestamp "MM/DD/YY HH:MM:SS" is the number of minutes since the   *)
(*    first midnight of the data; flooring to the hour and taking the date *)
(*    are computed from it.                                                *)
(*  - A call that raises returns the record Raised(kind) instead of a      *)
(*    table.                                                               *)
(***************************************************************************)
EXTENDS Integers, Sequences, FiniteSets, TLC

VARIABLES
    files,        \* HeartRateIngestor.ingest: the sorted list of matching files
    BATCH_SIZE,   \* HeartRateIngestor.BATCH_SIZE, the tunable batch size
    i,            \* ingest's loop variable: index (0-based) of the batch's first file
    batch_data,   \* raw records of the batch being processed
    file_data,    \* ingest's local data: the records of the file loaded last
    raw_df,       \* ingest's local df: the raw table built last (<<>>: none yet)
    all_hourly,   \* the partial aggregates, one table per batch that produced any
    hr_pc,        \* position of ingest: "start", "loop", "loaded", "done"
    hr_result,    \* the table ingest returned
    op,           \* the operation called on a transformer or writer ("idle": none yet)
    arg,          \* the argument of that call
    ret,          \* what the call returned (or raised)
    disk,         \* the columnar store: the table held by each file path, if any
    conn,         \* DuckDBManager._conn: TRUE once a connection is open
    views,        \* the views defined in the database file
    open_conns,   \* the DuckDB connections opened and not closed
    run,          \* run_pipeline: its position and its locals
    log,          \* the records run_pipeline and the writer logged in this run
    logging_configured,   \* logger._logging_configured
    root_level,   \* the level of the root logger
    root_handlers,        \* the handlers of the root logger, in order
    loggers       \* the names logging.getLogger has made a logger for

hrVars == <<files, BATCH_SIZE, i, batch_data, file_data, raw_df, all_hourly, hr_pc, hr_result>>
callVars == <<op, arg, ret>>
dbVars == <<conn, views, open_conns>>
runVars == <<run, log>>
logVars == <<logging_configured, root_level, root_handlers, loggers>>
vars == <<files, BATCH_SIZE, i, batch_data, file_data, raw_df, all_hourly, hr_pc, hr_result, op, arg,
          ret, disk, conn, views, open_conns, run, log, logging_configured, root_level,
          root_handlers, loggers>>

----------------------------------------------------------------------------
(* Bounds of the model. *)

MaxFiles == 3       \* at most this many files match a pattern
MaxBatchFiles == 4      \* at most this many files in the runs of the batch loop alone
MaxBatchReadings == 1   \* at most this many readings over those files
MaxReadings == 3    \* at most this many heart-rate readings over all the files
MaxSteps == 4       \* at most this many records in a steps table
MaxSleep == 2       \* at most this many sessions in a sleep table
MaxZones == 2       \* at most this many records in a zone-minutes table
MaxResting == 3     \* at most this many records in a resting-heart-rate table
MaxActivities == 2  \* at most this many records in an activities table
MaxIngestFiles == 2     \* files of a family other than heart rate
MaxIngestRecords == 2   \* records over all the files of such a family

----------------------------------------------------------------------------
(* Generic helpers. *)

None == {}
Some(v) == {v}
IsNone(x) == x = {}
Val(x) == CHOOSE v \in x : TRUE

Min(S) == CHOOSE x \in S : \A y \in S : x <= y
Max(S) == CHOOSE x \in S : \A y \in S : x >= y

RECURSIVE SumOver(_, _)
\* Sum of f[k] for k in the finite set S.
SumOver(S, f) ==
    IF S = {} THEN 0
    ELSE LET k == CHOOSE x \in S : TRUE IN f[k] + SumOver(S \ {k}, f)

RECURSIVE SortedSeq(_)
\* The elements of a finite set of integers, ascending.
SortedSeq(S) ==
    IF S = {} THEN <<>>
    ELSE LET m == Min(S) IN <<m>> \o SortedSeq(S \ {m})

RECURSIVE Concat(_)
\* Concatenation of a sequence of sequences.
Concat(ss) == IF ss = <<>> THEN <<>> ELSE Head(ss) \o Concat(Tail(ss))

\* Series.round: num/den rounded to the nearest integer, halves to even
\* (numpy rounds the scaled value with rint).  den > 0, num >= 0.
RoundHalfEven(num, den) ==
    LET q == num \div den
        r == num % den
    IN  IF 2 * r < den THEN q
        ELSE IF 2 * r > den THEN q + 1
        ELSE IF q % 2 = 0 THEN q ELSE q + 1

\* An optional value as a sequence of at most one element.
OptSeq(x) == IF IsNone(x) THEN <<>> ELSE <<Val(x)>>

\* What a call gives back: a table, or the exception it raised.  (A call that
\* returns one row or None gives back the table of that row, or the empty one.)
Ok(rows) == [raised |-> "none", rows |-> rows]
Raised(kind) == [raised |-> kind, rows |-> <<>>]

\* The permutations of 1..n.
Perms(n) == {p \in [1..n -> 1..n] : \A a, b \in 1..n : a # b => p[a] # p[b]}

\* SortValues as it would be if the table were returned as it is, not sorted.
SortValuesSkipped(rows, by) == {rows}

\* DataFrame.sort_values(key).reset_index(drop=True): the rows in ascending order
\* of column by.  pandas' default sort is not stable, so rows with equal keys may
\* come out in any order: the set of the possible results.
SortValues(rows, by) ==
    LET n == Len(rows)
        sorted == {p \in Perms(n) :
                     \A k \in 1..(n - 1) : rows[p[k]][by] <= rows[p[k + 1]][by]}
    IN  {[k \in 1..n |-> rows[p[k]]] : p \in sorted}

\* Series.dt.floor("h"): the timestamp truncated to its hour.
FloorHour(t) == t - (t % 60)

\* Series.dt.date followed by pd.to_datetime: midnight of the timestamp's day.
DateOf(t) == t - (t % 1440)

----------------------------------------------------------------------------
(* The columnar store on disk. *)

\* PARQUET_PATH and the file names run_pipeline writes.
output_path == "data/parquet"
ParquetNames == {"steps_daily.parquet", "heart_rate_hourly.parquet",
                 "resting_heart_rate.parquet", "sleep_sessions.parquet",
                 "zone_minutes_daily.parquet", "activities.parquet"}
\* self.output_path / filename
PathOf(filename) == <<output_path, filename>>
Paths == {PathOf(filename) : filename \in ParquetNames}

\* The output directory holds no file.
DiskEmpty == disk = [path \in Paths |-> None]

\* DuckDBManager.__init__ on a database file that does not exist yet: no
\* connection, no view.
DbClosed == conn = FALSE /\ views = {} /\ open_conns = 0

\* run_pipeline has not been started.
RunIdle ==
    /\ run = [pc |-> "idle", k |-> 0, inputs |-> <<>>, dfs |-> <<>>, raised |-> "none",
              before |-> [path \in Paths |-> None]]
    /\ log = <<>>

\* The logging module before logger.py configures it: the root logger has the
\* level WARNING and no handler, and no named logger exists.
LoggingFresh ==
    /\ logging_configured = FALSE
    /\ root_level = "WARNING"
    /\ root_handlers = <<>>
    /\ loggers = {}

----------------------------------------------------------------------------
(* Heart rate: the raw input. *)

\* A file either fails to load or holds a list of readings.
\* (load_json_file raises err, or returns data.)
BadFile(kind) == [ok |-> FALSE, err |-> kind, data |-> <<>>]
GoodFile(recs) == [ok |-> TRUE, err |-> "none", data |-> recs]

HRTimes == {30, 60}
Bpms == {60, 65}
\* value is {"bpm": b, "confidence": c}, a mapping without bpm, or no mapping.
HRValues == {[isDict |-> TRUE, bpm |-> Some(b)] : b \in Bpms}
            \cup {[isDict |-> TRUE, bpm |-> None], [isDict |-> FALSE, bpm |-> None]}
HRReadings == [dateTime : HRTimes, value : HRValues]

RECURSIVE SeqsUpTo(_, _)
\* The sequences over S of length at most n.
SeqsUpTo(S, n) ==
    IF n = 0 THEN {<<>>}
    ELSE LET shorter == SeqsUpTo(S, n - 1)
         IN  shorter \cup {Append(s, x) : s \in {t \in shorter : Len(t) = n - 1}, x \in S}

RECURSIVE FileLists(_, _, _, _)
\* The lists of exactly n files holding at most k records of R in all, a file
\* that fails to load failing with an error of E.
FileLists(R, E, n, k) ==
    IF n = 0 THEN {<<>>}
    ELSE {<<BadFile(e)>> \o rest : e \in E, rest \in FileLists(R, E, n - 1, k)}
         \cup UNION {LET rests == FileLists(R, E, n - 1, k - len)
                     IN  {<<GoodFile(recs)>> \o rest : recs \in [1..len -> R], rest \in rests}
                     : len \in 0..k}

\* The batch aggregator is run on well-formed readings of two hours, one of them
\* without bpm; malformed values are the transform's concern (HRTransform below).
HRBatchReadings ==
    {r \in HRReadings : r.value.isDict /\ (r.dateTime = 60 => r.value.bpm = Some(65))}

\* The lists of at most n files holding at most k heart-rate readings in all.
\* (ingest catches every Exception of a load alike: one kind of failure is drawn.)
HRFileLists(n, k) ==
    UNION {FileLists(HRBatchReadings, {"JSONDecodeError"}, m, k) : m \in 0..n}

----------------------------------------------------------------------------
(* Heart rate: HeartRateIngestor. *)

\* lambda x: x.get("bpm") if isinstance(x, dict) else None
ExtractBpm(value) == IF value.isDict THEN value.bpm ELSE None

\* LoadBatch as it would be if a file that fails to load ended its batch.
LoadBatchStopsAtFailure(batch_files) ==
    LET failing == {k \in DOMAIN batch_files : ~batch_files[k].ok}
        upto == IF failing = {} THEN Len(batch_files) ELSE Min(failing) - 1
    IN  Concat([k \in 1..upto |-> batch_files[k].data])

\* The inner loop of ingest: the records of the files of the batch that load.
RECURSIVE LoadBatch(_)
LoadBatch(batch_files) ==
    IF batch_files = <<>> THEN <<>>
    ELSE LET f == Head(batch_files)
         IN  (IF f.ok THEN f.data ELSE <<>>) \o LoadBatch(Tail(batch_files))

\* PartialRow as it would be if bpm_count counted the distinct bpm values.
PartialRowCountDistinct(hour, rs) ==
    LET bpms == [k \in DOMAIN rs |-> Val(ExtractBpm(rs[k].value))]
    IN  [hour |-> hour,
         bpm_sum |-> SumOver(DOMAIN rs, bpms),
         bpm_count |-> Cardinality({bpms[k] : k \in DOMAIN rs}),
         min_bpm |-> Min({bpms[k] : k \in DOMAIN rs}),
         max_bpm |-> Max({bpms[k] : k \in DOMAIN rs})]

\* One partial-aggregate row of the readings rs (all of one hour).
PartialRow(hour, rs) ==
    LET bpms == [k \in DOMAIN rs |-> Val(ExtractBpm(rs[k].value))]
    IN  [hour |-> hour,
         bpm_sum |-> SumOver(DOMAIN rs, bpms),
         bpm_count |-> Len(rs),
         min_bpm |-> Min({bpms[k] : k \in DOMAIN rs}),
         max_bpm |-> Max({bpms[k] : k \in DOMAIN rs})]

\* _transform_batch: the hourly partial aggregates of a batch of raw records.
TransformBatch(df) ==
    IF df = <<>> THEN <<>>
    ELSE LET HasBpm(r) == ~IsNone(ExtractBpm(r.value))
             valid == SelectSeq(df, HasBpm)
         IN  IF valid = <<>> THEN <<>>
             ELSE LET hours == SortedSeq({FloorHour(valid[k].dateTime) : k \in DOMAIN valid})
                      InHour(h) == LET P(r) == FloorHour(r.dateTime) = h
                                   IN  SelectSeq(valid, P)
                  IN  [n \in DOMAIN hours |-> PartialRow(hours[n], InHour(hours[n]))]

RECURSIVE ProductOver(_, _)
\* Product of f[k] for k in the finite set S.
ProductOver(S, f) ==
    IF S = {} THEN 1
    ELSE LET k == CHOOSE x \in S : TRUE IN f[k] * ProductOver(S \ {k}, f)

\* FinalRow as it would be if avg_bpm were the mean of the per-batch averages.
FinalRowAvgOfAverages(hour, ps) ==
    LET counts == [k \in DOMAIN ps |-> ps[k].bpm_count]
        d == ProductOver(DOMAIN ps, counts)
        num == SumOver(DOMAIN ps, [k \in DOMAIN ps |-> ps[k].bpm_sum * (d \div counts[k])])
    IN  [hour |-> hour,
         avg_bpm |-> RoundHalfEven(10 * num, d * Len(ps)),
         min_bpm |-> Min({ps[k].min_bpm : k \in DOMAIN ps}),
         max_bpm |-> Max({ps[k].max_bpm : k \in DOMAIN ps}),
         reading_count |-> SumOver(DOMAIN ps, counts)]

\* One row of the final table from the partial rows ps (all of one hour).
FinalRow(hour, ps) ==
    LET bpm_sum == SumOver(DOMAIN ps, [k \in DOMAIN ps |-> ps[k].bpm_sum])
        bpm_count == SumOver(DOMAIN ps, [k \in DOMAIN ps |-> ps[k].bpm_count])
    IN  [hour |-> hour,
         avg_bpm |-> RoundHalfEven(10 * bpm_sum, bpm_count),   \* in tenths
         min_bpm |-> Min({ps[k].min_bpm : k \in DOMAIN ps}),
         max_bpm |-> Max({ps[k].max_bpm : k \in DOMAIN ps}),
         reading_count |-> bpm_count]

\* _final_aggregate: the partial rows of all batches re-aggregated by hour.
FinalAggregate(df) ==
    IF df = <<>> THEN <<>>
    ELSE LET hours == SortedSeq({df[k].hour : k \in DOMAIN df})
             OfHour(h) == LET P(p) == p.hour = h IN SelectSeq(df, P)
         IN  [n \in DOMAIN hours |-> FinalRow(hours[n], OfHour(hours[n]))]

\* files[i:i + BATCH_SIZE + 1]: a slice that takes one file too many.
BatchFilesOverlapping(fs, start, size) ==
    SubSeq(fs, start + 1, IF start + size + 1 < Len(fs) THEN start + size + 1 ELSE Len(fs))

\* files[i:i + BATCH_SIZE] (i is 0-based).
BatchFiles(fs, start, size) ==
    SubSeq(fs, start + 1, IF start + size < Len(fs) THEN start + size ELSE Len(fs))

\* The body of the batch loop after the files are loaded: the batch's partial
\* aggregates are appended unless the batch has no record or no valid reading.
AppendHourly(acc, data) ==
    IF data = <<>> THEN acc
    ELSE LET hourly == TransformBatch(data)
         IN  IF hourly # <<>> THEN Append(acc, hourly) ELSE acc

RECURSIVE BatchLoop(_, _, _, _)
\* The batch loop from index start on, as a function: the final all_hourly.
BatchLoop(fs, size, start, acc) ==
    IF start >= Len(fs) THEN acc
    ELSE BatchLoop(fs, size, start + size,
                   AppendHourly(acc, LoadBatch(BatchFiles(fs, start, size))))

\* ingest as a function of the files and the batch size.
HRIngest(fs, size) ==
    IF fs = <<>> THEN <<>>
    ELSE LET hourly == BatchLoop(fs, size, 0, <<>>)
         IN  IF hourly = <<>> THEN <<>> ELSE FinalAggregate(Concat(hourly))

\* No call on a transformer has been made.
CallIdle ==
    /\ op = "idle"
    /\ arg = <<>>
    /\ ret = Ok(<<>>)

\* The heart-rate batch run is not started.
HRIdle ==
    /\ files = <<>>
    /\ BATCH_SIZE = 1
    /\ i = 0
    /\ batch_data = <<>>
    /\ file_data = <<>>
    /\ raw_df = <<>>
    /\ all_hourly = <<>>
    /\ hr_pc = "start"
    /\ hr_result = <<>>

HRInit ==
    /\ CallIdle
    /\ DiskEmpty
    /\ DbClosed
    /\ RunIdle
    /\ LoggingFresh
    /\ files \in HRFileLists(MaxFiles, MaxReadings)
    /\ BATCH_SIZE \in 1..MaxFiles
    /\ i = 0
    /\ batch_data = <<>>
    /\ file_data = <<>>
    /\ raw_df = <<>>
    /\ all_hourly = <<>>
    /\ hr_pc = "start"
    /\ hr_result = <<>>

\* ingest, up to the loop: no file gives the empty table at once.
HRStart ==
    /\ hr_pc = "start"
    /\ IF files = <<>>
       THEN hr_pc' = "done" /\ hr_result' = <<>>
       ELSE hr_pc' = "loop" /\ hr_result' = hr_result
    /\ i' = 0
    /\ all_hourly' = <<>>
    /\ batch_data' = <<>>
    /\ UNCHANGED <<files, BATCH_SIZE, file_data, raw_df, callVars, disk, dbVars, runVars, logVars>>

\* data after the inner loop: the records of the last file of the batch that
\* loaded, or what data was before when none did.
LastLoaded(batch_files, before) ==
    LET loading == {k \in DOMAIN batch_files : batch_files[k].ok}
    IN  IF loading = {} THEN before ELSE batch_files[Max(loading)].data

\* An iteration of the batch loop, first half: batch_data is bound to a new list
\* and the files of the batch are loaded into it.  df is not touched.
HRLoad ==
    /\ hr_pc = "loop"
    /\ i < Len(files)
    /\ batch_data' = LoadBatch(BatchFiles(files, i, BATCH_SIZE))
    /\ file_data' = LastLoaded(BatchFiles(files, i, BATCH_SIZE), file_data)
    /\ hr_pc' = "loaded"
    /\ UNCHANGED <<files, BATCH_SIZE, i, raw_df, all_hourly, hr_result, callVars, disk, dbVars, runVars, logVars>>

\* An iteration of the batch loop, second half: a batch with records is made a
\* table, bound to df, and aggregated; then the loop advances.
HRBatch ==
    /\ hr_pc = "loaded"
    /\ raw_df' = IF batch_data # <<>> THEN batch_data ELSE raw_df
    /\ all_hourly' = AppendHourly(all_hourly, batch_data)
    /\ i' = i + BATCH_SIZE
    /\ hr_pc' = "loop"
    /\ UNCHANGED <<files, BATCH_SIZE, batch_data, file_data, hr_result, callVars, disk, dbVars, runVars, logVars>>

\* After the loop: combine the partial aggregates.
HRFinish ==
    /\ hr_pc = "loop"
    /\ i >= Len(files)
    /\ hr_result' = IF all_hourly = <<>> THEN <<>>
                    ELSE FinalAggregate(Concat(all_hourly))
    /\ hr_pc' = "done"
    /\ UNCHANGED <<files, BATCH_SIZE, i, batch_data, file_data, raw_df, all_hourly, callVars, disk,
                   dbVars, runVars, logVars>>

HRNext == HRStart \/ HRLoad \/ HRBatch \/ HRFinish

SpecHR == HRInit /\ [][HRNext]_vars

\* ingest on longer lists of files that hold one reading at most, for the
\* properties of the batch loop that do not depend on what the files hold.
HRInitBatches ==
    /\ CallIdle
    /\ DiskEmpty
    /\ DbClosed
    /\ RunIdle
    /\ LoggingFresh
    /\ files \in HRFileLists(MaxBatchFiles, MaxBatchReadings)
    /\ BATCH_SIZE \in 1..MaxBatchFiles
    /\ i = 0
    /\ batch_data = <<>>
    /\ file_data = <<>>
    /\ raw_df = <<>>
    /\ all_hourly = <<>>
    /\ hr_pc = "start"
    /\ hr_result = <<>>

\* ingest runs to its end once called: no step of it waits for anything.
SpecHRBatches == HRInitBatches /\ [][HRNext]_vars /\ WF_vars(HRNext)

----------------------------------------------------------------------------
(* Heart rate: properties. *)

\* The readings of all the files that load, and those of them with a bpm.
HRLoaded == LoadBatch(files)
HRValid == {k \in DOMAIN HRLoaded : ~IsNone(ExtractBpm(HRLoaded[k].value))}
HRValidIn(h) == {k \in HRValid : FloorHour(HRLoaded[k].dateTime) = h}
HRBpm(k) == Val(ExtractBpm(HRLoaded[k].value))

\* Two partial-aggregate rows of one hour, from different batches, with unequal
\* reading counts and unequal averages.
HRUnequalSplit ==
    \E a, b \in DOMAIN all_hourly :
        /\ a < b
        /\ \E m \in DOMAIN all_hourly[a], n \in DOMAIN all_hourly[b] :
              LET p == all_hourly[a][m]
                  q == all_hourly[b][n]
              IN  /\ p.hour = q.hour
                  /\ p.bpm_count # q.bpm_count
                  /\ p.bpm_sum * q.bpm_count # q.bpm_sum * p.bpm_count

\* C1: the table ingest returns is independent of the batch partitioning: whatever
\* BATCH_SIZE the run used, its result (hours, avg_bpm, min_bpm, max_bpm and
\* reading_count of each hour) is the result with batch size 1 and the result with
\* batch size = number of files.
C1_BatchInvariance ==
    hr_pc = "done" =>
        /\ hr_result = HRIngest(files, 1)
        /\ hr_result = HRIngest(files, Len(files))

\* C1 witness: a finished run of 3 files in batches of 2 in which one hour is split
\* over the two batches with unequal counts.
C1_Witness ==
    /\ hr_pc = "done"
    /\ Len(files) = 3
    /\ BATCH_SIZE = 2
    /\ HRUnequalSplit
    /\ hr_result # <<>>

\* C2: the output has one row for every hour holding a reading with a bpm, and in
\* that row reading_count is the number of such readings over all loaded files,
\* min_bpm and max_bpm their minimum and maximum, and avg_bpm their sum divided by
\* their count, rounded to one decimal (held in tenths).
C2_SinglePassEquivalent ==
    hr_pc = "done" =>
        /\ {hr_result[n].hour : n \in DOMAIN hr_result}
             = {FloorHour(HRLoaded[k].dateTime) : k \in HRValid}
        /\ \A n \in DOMAIN hr_result :
              LET row == hr_result[n]
                  ks == HRValidIn(row.hour)
                  total == SumOver(ks, [k \in ks |-> HRBpm(k)])
              IN  /\ row.reading_count = Cardinality(ks)
                  /\ row.min_bpm = Min({HRBpm(k) : k \in ks})
                  /\ row.max_bpm = Max({HRBpm(k) : k \in ks})
                  /\ row.avg_bpm = RoundHalfEven(10 * total, Cardinality(ks))

\* C2 witness: a finished run in which one hour's readings were split over two
\* batches with unequal counts and unequal per-batch averages.
C2_Witness ==
    /\ hr_pc = "done"
    /\ HRUnequalSplit
    /\ \E n \in DOMAIN hr_result : hr_result[n].reading_count = 3

----------------------------------------------------------------------------
(* The record loader: BaseIngestor.load_all_files. *)

\* The exceptions a load can raise: invalid JSON, an I/O error, bytes that are
\* not UTF-8.
LoadErrors == {"JSONDecodeError", "OSError", "UnicodeDecodeError"}

RECURSIVE LoadAllFiles(_)
\* load_all_files: the records of the files in order; a file raising
\* json.JSONDecodeError or IOError is skipped, any other exception propagates.
LoadAllFiles(fl) ==
    IF fl = <<>> THEN Ok(<<>>)
    ELSE LET f == Head(fl)
             rest == LoadAllFiles(Tail(fl))
         IN  IF ~f.ok /\ f.err \notin {"JSONDecodeError", "OSError"} THEN Raised(f.err)
             ELSE IF rest.raised # "none" THEN rest
             ELSE Ok((IF f.ok THEN f.data ELSE <<>>) \o rest.rows)

\* The file lists an ingest of records R is called on.
IngestFileLists(R) ==
    UNION {FileLists(R, LoadErrors, n, MaxIngestRecords) : n \in 0..MaxIngestFiles}

----------------------------------------------------------------------------
(* The record loader called on a directory: get_files and load_all_files. *)

\* The matching files are named by numbers whose order is the order of their
\* names (steps-1.json, steps-2.json, ...).
FileNames == 1..MaxIngestFiles
\* Two raw records a file can hold.
LoaderRecords == {[dateTime |-> 30, value |-> <<"1", "0", "0">>],
                  [dateTime |-> 30, value |-> <<"0">>]}
\* What loading a matching file gives: an exception, or its list of records.
LoaderFiles ==
    {BadFile(e) : e \in LoadErrors}
    \cup {GoodFile(recs) : recs \in SeqsUpTo(LoaderRecords, MaxIngestRecords)}

\* The entries of sequence s, as a set.
Range(s) == {s[k] : k \in DOMAIN s}

\* What data_path.glob(file_pattern) can yield over the names of set names: the
\* matching files, each once, in any order.
Globs(names) ==
    {glob \in [1..Cardinality(names) -> [name : names, file : LoaderFiles]] :
        {glob[k].name : k \in DOMAIN glob} = names}

\* get_files: sorted(glob), the matching files in ascending order of name.
GetFiles(glob) ==
    LET sorted == SortedSeq({glob[k].name : k \in DOMAIN glob})
    IN  [k \in DOMAIN sorted |-> (CHOOSE e \in Range(glob) : e.name = sorted[k]).file]

\* load_all_files, on the directory listing glob
LoadAllFilesCall ==
    /\ op = "idle"
    /\ \E names \in SUBSET FileNames :
          \E glob \in Globs(names) :
              /\ op' = "base.load_all_files"
              /\ arg' = glob
              /\ ret' = LoadAllFiles(GetFiles(glob))
    /\ UNCHANGED <<hrVars, disk, dbVars, runVars, logVars>>

InitLoader == CallIdle /\ HRIdle /\ DiskEmpty /\ DbClosed /\ RunIdle /\ LoggingFresh

NextLoader == LoadAllFilesCall

SpecLoader == InitLoader /\ [][NextLoader]_vars

----------------------------------------------------------------------------
(* Steps: StepsIngestor.transform. *)

Digits == <<"0", "1", "2", "3", "4", "5", "6", "7", "8", "9">>
IsDigit(c) == \E d \in DOMAIN Digits : Digits[d] = c
DigitValue(c) == (CHOOSE d \in DOMAIN Digits : Digits[d] = c) - 1

RECURSIVE ParseDigits(_, _)
\* The number written by the digits of s, after the digits that gave acc.
ParseDigits(s, acc) ==
    IF s = <<>> THEN acc ELSE ParseDigits(Tail(s), 10 * acc + DigitValue(Head(s)))

\* pd.to_numeric(errors="coerce") of one value (a string, as a sequence of
\* characters): its number, or NaN (None) when it is not a number.
ToNumeric(s) ==
    IF s # <<>> /\ \A k \in DOMAIN s : IsDigit(s[k]) THEN Some(ParseDigits(s, 0)) ELSE None

\* .fillna(0).astype(int)
FillNa0(x) == IF IsNone(x) THEN 0 ELSE Val(x)

StepTimes == {30, 1470}
StepValues == {<<"0">>, <<"1", "0", "0">>, <<"3", "0", "0", "0">>, <<"5", "0", "0", "0">>,
               <<"n", "/", "a">>}
\* A raw record; the second day's readings are "3000" or non-numeric.
StepRecords ==
    {r \in [dateTime : StepTimes, value : StepValues] :
        r.dateTime = 1470 => r.value \in {<<"3", "0", "0", "0">>, <<"n", "/", "a">>}}
StepsTables == SeqsUpTo(StepRecords, MaxSteps)

\* StepsTransform as it would be if active_minutes counted every reading of the day.
StepsTransformCountAll(df) ==
    IF df = <<>> THEN Ok(<<>>)
    ELSE LET steps == [k \in DOMAIN df |-> FillNa0(ToNumeric(df[k].value))]
             dates == SortedSeq({DateOf(df[k].dateTime) : k \in DOMAIN df})
             On(d) == {k \in DOMAIN df : DateOf(df[k].dateTime) = d}
         IN  Ok([n \in DOMAIN dates |->
                   [date |-> dates[n],
                    total_steps |-> SumOver(On(dates[n]), steps),
                    active_minutes |-> Cardinality(On(dates[n]))]])

\* StepsIngestor.transform: the daily totals of a table of raw step readings.
StepsTransform(df) ==
    IF df = <<>> THEN Ok(<<>>)
    ELSE LET steps == [k \in DOMAIN df |-> FillNa0(ToNumeric(df[k].value))]
             dates == SortedSeq({DateOf(df[k].dateTime) : k \in DOMAIN df})
             On(d) == {k \in DOMAIN df : DateOf(df[k].dateTime) = d}
         IN  Ok([n \in DOMAIN dates |->
                   [date |-> dates[n],
                    total_steps |-> SumOver(On(dates[n]), steps),
                    active_minutes |-> Cardinality({k \in On(dates[n]) : steps[k] > 0})]])

StepsTransformCall ==
    /\ op = "idle"
    /\ \E df \in StepsTables :
          /\ op' = "steps.transform"
          /\ arg' = df
          /\ ret' = StepsTransform(df)
    /\ UNCHANGED <<hrVars, disk, dbVars, runVars, logVars>>

\* The records the steps ingest is run on.
StepsSample == {r \in StepRecords : r.value \in {<<"1", "0", "0">>, <<"n", "/", "a">>}}

\* StepsIngestor.ingest
StepsIngest(fl) ==
    LET all_data == LoadAllFiles(fl)
    IN  IF all_data.raised # "none" THEN all_data
        ELSE IF all_data.rows = <<>> THEN Ok(<<>>)
        ELSE StepsTransform(all_data.rows)

StepsIngestCall ==
    /\ op = "idle"
    /\ \E fl \in IngestFileLists(StepsSample) :
          /\ op' = "steps.ingest"
          /\ arg' = fl
          /\ ret' = StepsIngest(fl)
    /\ UNCHANGED <<hrVars, disk, dbVars, runVars, logVars>>

----------------------------------------------------------------------------
(* Sleep: SleepIngestor. *)

SleepStages == {"wake", "light", "deep", "rem", "awake", "restless", "asleep"}
\* The minutes a summary declares for a stage it holds.
StageMinutes(st) ==
    CASE st = "wake" -> 5 [] st = "light" -> 200 [] st = "deep" -> 80 [] st = "rem" -> 90
      [] st = "awake" -> 10 [] st = "restless" -> 20 [] st = "asleep" -> 30
\* levels.summary: each stage either absent or {"minutes": m}.
SleepSummaries ==
    {[st \in SleepStages |-> IF st \in present THEN Some(StageMinutes(st)) ELSE None]
        : present \in SUBSET SleepStages}
NoSummary == [st \in SleepStages |-> None]
SleepTypes == {"stages", "classic", "auto"}
SleepDates == {0, 1440}
\* A raw sleep record: type may be missing; levels is a mapping ("dict"), missing
\* ("absent") or null ("null", on which .get raises).
SleepRecords ==
    [type : {None} \cup {Some(t) : t \in SleepTypes}, levels : {"dict"},
     summary : SleepSummaries, dateOfSleep : SleepDates, duration : {27018000}]
    \cup [type : {None} \cup {Some(t) : t \in SleepTypes}, levels : {"absent", "null"},
          summary : {NoSummary}, dateOfSleep : SleepDates, duration : {27018000}]

\* summary.get(stage, {}).get("minutes", 0)
StageGet(summary, st) == FillNa0(summary[st])

\* ProcessSession as it would be if the classic branch kept deep and rem.
ProcessSessionClassicKeepsStages(record) ==
    IF record.levels = "null" THEN None
    ELSE LET sleep_type == IF IsNone(record.type) THEN "classic" ELSE Val(record.type)
         IN  Some([date |-> record.dateOfSleep,
                   duration_ms |-> record.duration,
                   sleep_type |-> sleep_type,
                   wake_minutes |-> IF sleep_type = "stages"
                                    THEN StageGet(record.summary, "wake")
                                    ELSE StageGet(record.summary, "awake"),
                   light_minutes |-> IF sleep_type = "stages"
                                     THEN StageGet(record.summary, "light")
                                     ELSE StageGet(record.summary, "restless")
                                          + StageGet(record.summary, "asleep"),
                   deep_minutes |-> StageGet(record.summary, "deep"),
                   rem_minutes |-> StageGet(record.summary, "rem")])

\* _process_session: the session of a raw record, or None when processing it raised.
ProcessSession(record) ==
    IF record.levels = "null" THEN None    \* AttributeError, caught
    ELSE LET sleep_type == IF IsNone(record.type) THEN "classic" ELSE Val(record.type)
             summary == record.summary
         IN  Some([date |-> record.dateOfSleep,
                   duration_ms |-> record.duration,
                   sleep_type |-> sleep_type,
                   wake_minutes |-> IF sleep_type = "stages" THEN StageGet(summary, "wake")
                                    ELSE StageGet(summary, "awake"),
                   light_minutes |-> IF sleep_type = "stages" THEN StageGet(summary, "light")
                                     ELSE StageGet(summary, "restless")
                                          + StageGet(summary, "asleep"),
                   deep_minutes |-> IF sleep_type = "stages" THEN StageGet(summary, "deep")
                                    ELSE 0,
                   rem_minutes |-> IF sleep_type = "stages" THEN StageGet(summary, "rem")
                                   ELSE 0])

\* One row of SleepIngestor.transform: duration_hours rounded to 2 decimals
\* (held in hundredths of an hour).
SleepRow(session) ==
    [date |-> session.date,
     duration_hours |-> RoundHalfEven(session.duration_ms, 36000),
     sleep_type |-> session.sleep_type,
     wake_minutes |-> session.wake_minutes,
     light_minutes |-> session.light_minutes,
     deep_minutes |-> session.deep_minutes,
     rem_minutes |-> session.rem_minutes]

\* SleepIngestor.transform: the possible results on a table of sessions.
SleepTransform(df) ==
    IF df = <<>> THEN {Ok(<<>>)}
    ELSE {Ok(t) : t \in SortValues([k \in DOMAIN df |-> SleepRow(df[k])], "date")}

\* Sessions as it would be if a record that fails to process ended the loop.
SessionsStopAtFailure(all_data) ==
    LET failing == {k \in DOMAIN all_data : IsNone(ProcessSession(all_data[k]))}
        upto == IF failing = {} THEN Len(all_data) ELSE Min(failing) - 1
    IN  [k \in 1..upto |-> Val(ProcessSession(all_data[k]))]

\* The loop of ingest: the sessions of the records that process, in order.
Sessions(all_data) ==
    LET Good(r) == ~IsNone(ProcessSession(r))
        kept == SelectSeq(all_data, Good)
    IN  [k \in DOMAIN kept |-> Val(ProcessSession(kept[k]))]

\* SleepIngestor.ingest: the possible results.
SleepIngest(fl) ==
    LET all_data == LoadAllFiles(fl)
    IN  IF all_data.raised # "none" THEN {all_data}
        ELSE IF all_data.rows = <<>> THEN {Ok(<<>>)}
        ELSE IF Sessions(all_data.rows) = <<>> THEN {Ok(<<>>)}
        ELSE SleepTransform(Sessions(all_data.rows))

\* The records the sleep transform and ingest are run on: both schema versions
\* and a type that is neither, with every stage declared, and a record that fails
\* to process.
SleepSample ==
    {r \in SleepRecords :
        \/ r.levels = "null" /\ r.type = None /\ r.dateOfSleep = 0
        \/ r.levels = "dict" /\ r.type \in {None, Some("stages")}
             /\ \A st \in SleepStages : ~IsNone(r.summary[st])
        \/ r.levels = "dict" /\ r.type = Some("auto") /\ r.dateOfSleep = 0
             /\ \A st \in SleepStages : ~IsNone(r.summary[st])}
SleepTables ==
    {[k \in DOMAIN t |-> Val(ProcessSession(t[k]))] :
        t \in SeqsUpTo({r \in SleepSample : r.levels = "dict"}, MaxSleep)}

ProcessSessionCall ==
    /\ op = "idle"
    /\ \E record \in SleepRecords :
          /\ op' = "sleep._process_session"
          /\ arg' = <<record>>
          /\ ret' = Ok(OptSeq(ProcessSession(record)))
    /\ UNCHANGED <<hrVars, disk, dbVars, runVars, logVars>>

SleepTransformCall ==
    /\ op = "idle"
    /\ \E df \in SleepTables :
          /\ op' = "sleep.transform"
          /\ arg' = df
          /\ ret' \in SleepTransform(df)
    /\ UNCHANGED <<hrVars, disk, dbVars, runVars, logVars>>

SleepIngestCall ==
    /\ op = "idle"
    /\ \E fl \in IngestFileLists(SleepSample) :
          /\ op' = "sleep.ingest"
          /\ arg' = fl
          /\ ret' \in SleepIngest(fl)
    /\ UNCHANGED <<hrVars, disk, dbVars, runVars, logVars>>

----------------------------------------------------------------------------
(* Zone minutes: ZoneMinutesIngestor. *)

ZoneKeys == {"IN_DEFAULT_ZONE_1", "IN_DEFAULT_ZONE_2", "IN_DEFAULT_ZONE_3",
             "BELOW_DEFAULT_ZONE_1"}
\* valuesInZones: each key absent or a number of minutes (fat burn varies; of the
\* other three keys none, one or all are absent).
ZoneMaps ==
    {[key \in ZoneKeys |->
        CASE key = "IN_DEFAULT_ZONE_1" -> fb
          [] key = "IN_DEFAULT_ZONE_2" -> cardio
          [] key = "IN_DEFAULT_ZONE_3" -> peak
          [] key = "BELOW_DEFAULT_ZONE_1" -> below]
        : fb \in {None, Some(5), Some(7)},
          <<cardio, peak, below>> \in
              {<<Some(3), Some(2), Some(9)>>, <<None, Some(2), Some(9)>>,
               <<Some(3), None, Some(9)>>, <<Some(3), Some(2), None>>,
               <<None, None, None>>}}
NoZones == [key \in ZoneKeys |-> None]
ZoneTimes == {30, 1470}
\* A raw record: value is a mapping with valuesInZones ("dict"), a mapping
\* without it ("nozones"), or no mapping at all ("notdict").
ZoneRecords ==
    [dateTime : ZoneTimes, kind : {"dict"}, zones : ZoneMaps]
    \cup [dateTime : ZoneTimes, kind : {"nozones", "notdict"}, zones : {NoZones}]
ZoneTables == SeqsUpTo(ZoneRecords, MaxZones)

\* lambda x: x.get("valuesInZones", {}).get(key, 0), on a mapping x
ZoneGet(record, key) == IF record.kind = "dict" THEN FillNa0(record.zones[key]) ELSE 0

\* The columns of one record before the aggregation.
ZoneColumns(record) ==
    [fat_burn_minutes |-> ZoneGet(record, "IN_DEFAULT_ZONE_1"),
     cardio_minutes |-> ZoneGet(record, "IN_DEFAULT_ZONE_2"),
     peak_minutes |-> ZoneGet(record, "IN_DEFAULT_ZONE_3"),
     out_of_range_minutes |-> ZoneGet(record, "BELOW_DEFAULT_ZONE_1"),
     total_active_minutes |-> ZoneGet(record, "IN_DEFAULT_ZONE_1")
                              + ZoneGet(record, "IN_DEFAULT_ZONE_2")
                              + ZoneGet(record, "IN_DEFAULT_ZONE_3")]

\* ZoneRow as it would be if duplicates of a date were dropped, not summed.
ZoneRowKeepFirst(date, cols) ==
    [date |-> date,
     fat_burn_minutes |-> cols[1].fat_burn_minutes,
     cardio_minutes |-> cols[1].cardio_minutes,
     peak_minutes |-> cols[1].peak_minutes,
     out_of_range_minutes |-> cols[1].out_of_range_minutes,
     total_active_minutes |-> cols[1].total_active_minutes]

\* groupby("date").agg(sum): the row of a date from the columns of its records.
ZoneRow(date, cols) ==
    [date |-> date,
     fat_burn_minutes |-> SumOver(DOMAIN cols, [k \in DOMAIN cols |-> cols[k].fat_burn_minutes]),
     cardio_minutes |-> SumOver(DOMAIN cols, [k \in DOMAIN cols |-> cols[k].cardio_minutes]),
     peak_minutes |-> SumOver(DOMAIN cols, [k \in DOMAIN cols |-> cols[k].peak_minutes]),
     out_of_range_minutes |->
         SumOver(DOMAIN cols, [k \in DOMAIN cols |-> cols[k].out_of_range_minutes]),
     total_active_minutes |->
         SumOver(DOMAIN cols, [k \in DOMAIN cols |-> cols[k].total_active_minutes])]

\* ZoneMinutesIngestor.transform
ZoneTransform(df) ==
    IF df = <<>> THEN Ok(<<>>)
    ELSE IF \E k \in DOMAIN df : df[k].kind = "notdict" THEN Raised("AttributeError")
    ELSE LET dates == SortedSeq({DateOf(df[k].dateTime) : k \in DOMAIN df})
             On(d) == LET P(r) == DateOf(r.dateTime) = d IN SelectSeq(df, P)
             Cols(d) == [k \in DOMAIN On(d) |-> ZoneColumns(On(d)[k])]
         IN  Ok([n \in DOMAIN dates |-> ZoneRow(dates[n], Cols(dates[n]))])

\* The records the zone-minutes ingest is run on.
ZoneSample ==
    {r \in ZoneRecords : r.kind # "dict" \/ \A key \in ZoneKeys : r.zones[key] # None}

\* ZoneMinutesIngestor.ingest
ZoneIngest(fl) ==
    LET all_data == LoadAllFiles(fl)
    IN  IF all_data.raised # "none" THEN all_data
        ELSE IF all_data.rows = <<>> THEN Ok(<<>>)
        ELSE ZoneTransform(all_data.rows)

ZoneTransformCall ==
    /\ op = "idle"
    /\ \E df \in ZoneTables :
          /\ op' = "zone_minutes.transform"
          /\ arg' = df
          /\ ret' = ZoneTransform(df)
    /\ UNCHANGED <<hrVars, disk, dbVars, runVars, logVars>>

ZoneIngestCall ==
    /\ op = "idle"
    /\ \E fl \in IngestFileLists(ZoneSample) :
          /\ op' = "zone_minutes.ingest"
          /\ arg' = fl
          /\ ret' = ZoneIngest(fl)
    /\ UNCHANGED <<hrVars, disk, dbVars, runVars, logVars>>

----------------------------------------------------------------------------
(* Resting heart rate: RestingHeartRateIngestor. *)

RestingTimes == {30, 1470}
\* A raw record: value is {"date", "value", "error"} with value and error in
\* thousandths (62671 is 62.671), either possibly missing, or no mapping.
RestingRecords ==
    [dateTime : RestingTimes, isDict : {TRUE},
     value : {None, Some(62671), Some(58250)}, error : {None, Some(6911)}]
    \cup [dateTime : RestingTimes, isDict : {FALSE}, value : {None}, error : {None}]
RestingTables == SeqsUpTo(RestingRecords, MaxResting)

\* Series.round on a column holding NaN: NaN stays NaN.
RoundOpt(x, den) == IF IsNone(x) THEN None ELSE Some(RoundHalfEven(Val(x), den))

\* One output row: resting_hr in tenths, error in hundredths.
RestingRow(record) ==
    [date |-> DateOf(record.dateTime),
     resting_hr |-> RoundHalfEven(Val(record.value), 100),
     error |-> RoundOpt(record.error, 10)]

\* RestingRows as they would be if same-date records were merged into one row.
RestingRowsMerged(df) ==
    LET HasValue(r) == r.isDict /\ ~IsNone(r.value)
        valid == SelectSeq(df, HasValue)
        dates == SortedSeq({DateOf(valid[k].dateTime) : k \in DOMAIN valid})
        First(d) == LET P(r) == DateOf(r.dateTime) = d IN Head(SelectSeq(valid, P))
    IN  [n \in DOMAIN dates |-> RestingRow(First(dates[n]))]

\* The rows of transform before the sort: the records with a value, one row each.
RestingRows(df) ==
    LET HasValue(r) == r.isDict /\ ~IsNone(r.value)
        valid == SelectSeq(df, HasValue)
    IN  [k \in DOMAIN valid |-> RestingRow(valid[k])]

\* RestingHeartRateIngestor.transform: the possible results.
RestingTransform(df) ==
    IF df = <<>> THEN {Ok(<<>>)}
    ELSE {Ok(t) : t \in SortValues(RestingRows(df), "date")}

\* The records the resting-heart-rate ingest is run on.
RestingSample == {r \in RestingRecords : r.value # Some(58250) /\ (r.isDict => r.error # None)}

\* RestingHeartRateIngestor.ingest: the possible results.
RestingIngest(fl) ==
    LET all_data == LoadAllFiles(fl)
    IN  IF all_data.raised # "none" THEN {all_data}
        ELSE IF all_data.rows = <<>> THEN {Ok(<<>>)}
        ELSE RestingTransform(all_data.rows)

RestingTransformCall ==
    /\ op = "idle"
    /\ \E df \in RestingTables :
          /\ op' = "resting_heart_rate.transform"
          /\ arg' = df
          /\ ret' \in RestingTransform(df)
    /\ UNCHANGED <<hrVars, disk, dbVars, runVars, logVars>>

RestingIngestCall ==
    /\ op = "idle"
    /\ \E fl \in IngestFileLists(RestingSample) :
          /\ op' = "resting_heart_rate.ingest"
          /\ arg' = fl
          /\ ret' \in RestingIngest(fl)
    /\ UNCHANGED <<hrVars, disk, dbVars, runVars, logVars>>

----------------------------------------------------------------------------
(* Activities: ActivitiesIngestor. *)

\* An entry of heartRateZones: a mapping {"name", "minutes", ...}, or no mapping.
ZoneEntry(name, minutes) == [isDict |-> TRUE, name |-> name, minutes |-> minutes]
NotAnEntry == [isDict |-> FALSE, name |-> "", minutes |-> None]
\* The zone lists: the device's four zones, the list without one of the three
\* named zones, the list of the unnamed zone alone, the empty list, a zone
\* without minutes, a list with a repeated name, and a list with a malformed entry.
FullZoneList ==
    <<ZoneEntry("Out of Range", Some(9)), ZoneEntry("Fat Burn", Some(5)),
      ZoneEntry("Cardio", Some(3)), ZoneEntry("Peak", Some(2))>>
ZoneLists ==
    {SelectSeq(FullZoneList, LAMBDA e : e.name \in names)
        : names \in {{"Out of Range", "Fat Burn", "Cardio", "Peak"},
                     {"Out of Range", "Cardio", "Peak"},
                     {"Out of Range", "Fat Burn", "Peak"},
                     {"Out of Range", "Fat Burn", "Cardio"},
                     {"Out of Range"}, {}}}
    \cup {<<ZoneEntry("Fat Burn", None), ZoneEntry("Peak", Some(2))>>,
          <<ZoneEntry("Fat Burn", Some(5)), ZoneEntry("Fat Burn", Some(7))>>,
          <<NotAnEntry, ZoneEntry("Cardio", Some(3))>>}
\* heartRateZones: a list, a missing key ("absent"), null ("none") or another
\* value ("notlist").
HeartRateZones ==
    [kind : {"list"}, zones : ZoneLists]
    \cup [kind : {"absent", "none", "notlist"}, zones : {<<>>}]
ActivityTimes == {30, 90}
\* A raw record; activeDuration and duration are in milliseconds and may be
\* missing.  (logId, activityName, calories, distance, averageHeartRate and steps
\* are carried by every record and copied or coerced; they are left out.)
\* Either the durations vary (with all zones or no heartRateZones key) or the
\* zones do (with both durations).
ActivityRecords ==
    [startTime : {30}, activeDuration : {None, Some(1800000)},
     duration : {None, Some(2430000)},
     heartRateZones : {[kind |-> "list", zones |-> FullZoneList],
                       [kind |-> "absent", zones |-> <<>>]}]
    \cup [startTime : ActivityTimes, activeDuration : {Some(1800000)},
          duration : {Some(2430000)}, heartRateZones : HeartRateZones]
ActivityTables == SeqsUpTo(ActivityRecords, MaxActivities)

RECURSIVE FirstNamed(_, _)
\* The loop of get_zone_minutes: the minutes of the first entry named zone_name.
FirstNamed(zones, zone_name) ==
    IF zones = <<>> THEN 0
    ELSE IF Head(zones).isDict /\ Head(zones).name = zone_name
         THEN FillNa0(Head(zones).minutes)
         ELSE FirstNamed(Tail(zones), zone_name)

\* get_zone_minutes(hr_zones, zone_name), hr_zones being the cell of the column
\* (NaN for a record without the key).
GetZoneMinutes(hr_zones, zone_name) ==
    IF hr_zones.kind # "list" THEN 0 ELSE FirstNamed(hr_zones.zones, zone_name)

\* df["activeDuration"].fillna(df["duration"]) / 60000.0 for one record, in
\* thousandths of a minute; NaN when the record has neither.
DurationMinutes(record) ==
    IF ~IsNone(record.activeDuration) THEN Some(Val(record.activeDuration) \div 60)
    ELSE IF ~IsNone(record.duration) THEN Some(Val(record.duration) \div 60)
    ELSE None

ActivityRow(record) ==
    [date |-> DateOf(record.startTime),
     start_time |-> record.startTime,
     duration_minutes |-> DurationMinutes(record),
     fat_burn_minutes |-> GetZoneMinutes(record.heartRateZones, "Fat Burn"),
     cardio_minutes |-> GetZoneMinutes(record.heartRateZones, "Cardio"),
     peak_minutes |-> GetZoneMinutes(record.heartRateZones, "Peak")]

\* df[column] raises KeyError when no record of the table carries the key.
NoColumn(df, col) ==
    \A k \in DOMAIN df :
        IF col = "heartRateZones" THEN df[k][col].kind = "absent" ELSE IsNone(df[k][col])

\* ActivitiesIngestor.transform: the possible results.
ActivitiesTransform(df) ==
    IF df = <<>> THEN {Ok(<<>>)}
    ELSE IF NoColumn(df, "activeDuration") THEN {Raised("KeyError")}
    ELSE IF NoColumn(df, "duration") THEN {Raised("KeyError")}
    ELSE IF NoColumn(df, "heartRateZones") THEN {Raised("KeyError")}
    ELSE {Ok(t) : t \in SortValues([k \in DOMAIN df |-> ActivityRow(df[k])], "start_time")}

\* The records the activities ingest is run on.
ActivitySample ==
    {r \in ActivityRecords :
        /\ r.startTime = 30
        /\ r.duration # None
        /\ r.heartRateZones.kind \in {"absent", "none"}}

\* ActivitiesIngestor.ingest: the possible results.
ActivitiesIngest(fl) ==
    LET all_data == LoadAllFiles(fl)
    IN  IF all_data.raised # "none" THEN {all_data}
        ELSE IF all_data.rows = <<>> THEN {Ok(<<>>)}
        ELSE ActivitiesTransform(all_data.rows)

ActivitiesTransformCall ==
    /\ op = "idle"
    /\ \E df \in ActivityTables :
          /\ op' = "activities.transform"
          /\ arg' = df
          /\ ret' \in ActivitiesTransform(df)
    /\ UNCHANGED <<hrVars, disk, dbVars, runVars, logVars>>

ActivitiesIngestCall ==
    /\ op = "idle"
    /\ \E fl \in IngestFileLists(ActivitySample) :
          /\ op' = "activities.ingest"
          /\ arg' = fl
          /\ ret' \in ActivitiesIngest(fl)
    /\ UNCHANGED <<hrVars, disk, dbVars, runVars, logVars>>

----------------------------------------------------------------------------
(* Heart rate, called as a function. *)

HRTables == SeqsUpTo(HRReadings, MaxReadings)

\* HeartRateIngestor.transform
HRTransform(df) == Ok(TransformBatch(df))

\* HRIngestOutcome as it would be without the "if not all_hourly" guard: pd.concat
\* of an empty list raises.
HRIngestConcatRaises(fs, size) ==
    IF fs = <<>> THEN Ok(<<>>)
    ELSE IF BatchLoop(fs, size, 0, <<>>) = <<>> THEN Raised("ValueError")
    ELSE Ok(HRIngest(fs, size))

\* HeartRateIngestor.ingest, which raises nothing of its own (every exception of
\* a load is caught).
HRIngestOutcome(fs, size) == Ok(HRIngest(fs, size))

\* The readings the heart-rate ingest is run on here: one hour, with a bpm, without
\* one, and with a value that is no mapping.
HRSample == {r \in HRReadings : r.dateTime = 30 /\ r.value.bpm # Some(65)}

HRTransformCall ==
    /\ op = "idle"
    /\ \E df \in HRTables :
          /\ op' = "heart_rate.transform"
          /\ arg' = df
          /\ ret' = HRTransform(df)
    /\ UNCHANGED <<hrVars, disk, dbVars, runVars, logVars>>

HRIngestCall ==
    /\ op = "idle"
    /\ \E fl \in IngestFileLists(HRSample), size \in 1..MaxIngestFiles :
          /\ op' = "heart_rate.ingest"
          /\ arg' = fl
          /\ ret' = HRIngestOutcome(fl, size)
    /\ UNCHANGED <<hrVars, disk, dbVars, runVars, logVars>>

----------------------------------------------------------------------------
(* The transformers, called once each on an input of their family. *)

Init == CallIdle /\ HRIdle /\ DiskEmpty /\ DbClosed /\ RunIdle /\ LoggingFresh

Next ==
    \/ StepsTransformCall
    \/ StepsIngestCall
    \/ ProcessSessionCall
    \/ SleepTransformCall
    \/ SleepIngestCall
    \/ ZoneTransformCall
    \/ ZoneIngestCall
    \/ RestingTransformCall
    \/ RestingIngestCall
    \/ ActivitiesTransformCall
    \/ ActivitiesIngestCall
    \/ HRTransformCall
    \/ HRIngestCall

Spec == Init /\ [][Next]_vars

----------------------------------------------------------------------------
(* ParquetWriter: the tables written to, looked up in and read back from the
   store.  The store keeps, per path, the rows of the table last written there
   (to_parquet with index=False keeps the rows and drops the index). *)

MaxWriteRows == 2   \* at most this many rows in a table handed to the writer

\* A row of a canonical table (here of steps_daily).
WriterRow == [date |-> 0, total_steps |-> 5100, reading_count |-> 2]
WriterTables == SeqsUpTo({WriterRow}, MaxWriteRows)

\* What write gives back: the path written, or None.
Written(path) == [raised |-> "none", path |-> path]
\* What exists gives back.
Found(b) == [raised |-> "none", found |-> b]

\* DataFrame.empty, for a table that has columns: it has no rows.
Empty(df) == Len(df) = 0

\* A writer that writes the table whether or not it has rows.
WriteDiskAlways(d, df, filename) ==
    [d EXCEPT ![PathOf(filename)] = Some(df)]

\* The store after write(df, filename): an empty table is skipped, any other
\* replaces whatever the path held.
WriteDisk(d, df, filename) ==
    IF Empty(df)
    THEN d
    ELSE [d EXCEPT ![PathOf(filename)] = Some(df)]

\* The value write(df, filename) returns.
WriteReturn(df, filename) ==
    IF Empty(df) THEN Written(None) ELSE Written(Some(PathOf(filename)))

\* exists(filename)
Exists(d, filename) == ~IsNone(d[PathOf(filename)])

\* read(filename): the stored table, or an empty one when there is no file.
ReadDisk(d, filename) ==
    IF ~Exists(d, filename) THEN Ok(<<>>) ELSE Ok(Val(d[PathOf(filename)]))

WriterWrite ==
    \E df \in WriterTables, filename \in ParquetNames :
        /\ op' = "writer.write"
        /\ arg' = <<df, filename>>
        /\ disk' = WriteDisk(disk, df, filename)
        /\ ret' = WriteReturn(df, filename)
        /\ UNCHANGED <<hrVars, dbVars, runVars, logVars>>

WriterExists ==
    \E filename \in ParquetNames :
        /\ op' = "writer.exists"
        /\ arg' = <<filename>>
        /\ ret' = Found(Exists(disk, filename))
        /\ UNCHANGED <<hrVars, disk, dbVars, runVars, logVars>>

WriterRead ==
    \E filename \in ParquetNames :
        /\ op' = "writer.read"
        /\ arg' = <<filename>>
        /\ ret' = ReadDisk(disk, filename)
        /\ UNCHANGED <<hrVars, disk, dbVars, runVars, logVars>>

\* ParquetWriter(PARQUET_PATH): the directory exists and nothing is written yet.
InitStore == CallIdle /\ HRIdle /\ DiskEmpty /\ DbClosed /\ RunIdle /\ LoggingFresh

NextStore == WriterWrite \/ WriterExists \/ WriterRead

SpecStore == InitStore /\ [][NextStore]_vars

----------------------------------------------------------------------------
(* run_pipeline: the six families ingested and written, one after the other. *)

\* The families in the order run_pipeline processes them, and the file each is
\* written to.
Families == <<"steps", "heart_rate", "resting_heart_rate", "sleep", "zone_minutes",
              "activities">>
FileOf(family) ==
    CASE family = "steps" -> "steps_daily.parquet"
      [] family = "heart_rate" -> "heart_rate_hourly.parquet"
      [] family = "resting_heart_rate" -> "resting_heart_rate.parquet"
      [] family = "sleep" -> "sleep_sessions.parquet"
      [] family = "zone_minutes" -> "zone_minutes_daily.parquet"
      [] family = "activities" -> "activities.parquet"

\* HeartRateIngestor.BATCH_SIZE as the class defines it.
DefaultBatchSize == 100

\* <family>Ingestor(FITBIT_DATA_PATH).ingest() on the family's matching files: the
\* possible outcomes.
IngestOf(family, fl) ==
    CASE family = "steps" -> {StepsIngest(fl)}
      [] family = "heart_rate" -> {HRIngestOutcome(fl, DefaultBatchSize)}
      [] family = "resting_heart_rate" -> RestingIngest(fl)
      [] family = "sleep" -> SleepIngest(fl)
      [] family = "zone_minutes" -> {ZoneIngest(fl)}
      [] family = "activities" -> ActivitiesIngest(fl)

RECURSIVE RunFrom(_, _, _, _)
\* run_pipeline from the k-th family on, over the matching files inputs[k] of each
\* family, the store being d and dfs the tables ingested so far: the possible
\* results.  An exception of an ingest ends the run where it is raised.
RunFrom(k, inputs, d, dfs) ==
    IF k > Len(Families)
    THEN {[raised |-> "none", disk |-> d, dfs |-> dfs]}
    ELSE UNION {IF out.raised # "none"
                THEN {[raised |-> out.raised, disk |-> d, dfs |-> dfs]}
                ELSE RunFrom(k + 1, inputs, WriteDisk(d, out.rows, FileOf(Families[k])),
                             Append(dfs, out.rows))
                : out \in IngestOf(Families[k], inputs[k])}

\* The export directories a run finds: per family no matching file or one file;
\* the steps file holds one of two days, the resting heart-rate file may be
\* unreadable, and the sleep, zone and activity files come and go together.
StepsDay1 == <<GoodFile(<<[dateTime |-> 30, value |-> <<"1", "0", "0">>]>>)>>
StepsDay2 == <<GoodFile(<<[dateTime |-> 1470, value |-> <<"3", "0", "0", "0">>]>>)>>
HRExport ==
    <<GoodFile(<<[dateTime |-> 60, value |-> [isDict |-> TRUE, bpm |-> Some(60)]],
                 [dateTime |-> 3660, value |-> [isDict |-> TRUE, bpm |-> Some(65)]]>>)>>
RestingExport ==
    <<GoodFile(<<[dateTime |-> 30, isDict |-> TRUE, value |-> Some(62671),
                  error |-> Some(6911)]>>)>>
Unreadable == <<BadFile("UnicodeDecodeError")>>
SleepExport ==
    <<GoodFile(<<[type |-> Some("stages"), levels |-> "dict",
                  summary |-> [st \in SleepStages |-> Some(StageMinutes(st))],
                  dateOfSleep |-> 1440, duration |-> 27018000]>>)>>
ZoneExport ==
    <<GoodFile(<<[dateTime |-> 30, kind |-> "dict",
                  zones |-> [key \in ZoneKeys |-> Some(5)]]>>)>>
ActivitiesExport ==
    <<GoodFile(<<[startTime |-> 90, activeDuration |-> Some(1800000),
                  duration |-> Some(2430000),
                  heartRateZones |-> [kind |-> "list", zones |-> FullZoneList]]>>)>>
PipelineInputs ==
    {<<steps, hr, rhr>> \o rest :
        steps \in {<<>>, StepsDay1, StepsDay2},
        hr \in {<<>>, HRExport},
        rhr \in {<<>>, RestingExport, Unreadable},
        rest \in {<< <<>>, <<>>, <<>> >>, <<SleepExport, ZoneExport, ActivitiesExport>>}}

\* What run_pipeline leaves: the exception that ended it, if any, and the tables
\* it ingested (steps_df, hr_df, ...).
Ran(raised, dfs) == [raised |-> raised, rows |-> <<>>, dfs |-> dfs]

RunPipeline ==
    \E inputs \in PipelineInputs :
        \E out \in RunFrom(1, inputs, disk, <<>>) :
            /\ op' = "run_pipeline"
            /\ arg' = inputs
            /\ ret' = Ran(out.raised, out.dfs)
            /\ disk' = out.disk
            /\ UNCHANGED <<hrVars, dbVars, runVars, logVars>>

----------------------------------------------------------------------------
(* run_pipeline, step by step: each ingest and each write is a step. *)

\* The frame of a run that starts on the export directory inputs.  before is the
\* store as the run finds it, kept for the properties.
Started(inputs, d) ==
    [pc |-> "ingest", k |-> 1, inputs |-> inputs, dfs |-> <<>>, raised |-> "none",
     before |-> d]

\* The frame after the ingest of family r.k gave out: the table is bound to the
\* family's local (steps_df, hr_df, ...), or the exception leaves run_pipeline.
Ingested(r, out) ==
    IF out.raised # "none" THEN [r EXCEPT !.pc = "raised", !.raised = out.raised]
    ELSE [r EXCEPT !.pc = "write", !.dfs = Append(@, out.rows)]

\* Wrote as it would be if the writer call were repeated for the family.
WroteStaysOnFamily(r) == [r EXCEPT !.pc = "write"]

\* The frame after writer.write for family r.k: on to the next family, if any.
Wrote(r) ==
    IF r.k = Len(Families) THEN [r EXCEPT !.pc = "done"]
    ELSE [r EXCEPT !.pc = "ingest", !.k = @ + 1]

\* What the writer logs for a table: "Wrote n records to <file>" or "Empty
\* DataFrame, skipping write for <file>".
WriteRecord(df, filename) ==
    IF Empty(df) THEN <<"skipped", filename>> ELSE <<"wrote", filename>>

\* run_pipeline is started (again): a new writer on the same directory.
RunStart ==
    /\ run.pc \in {"idle", "done", "raised"}
    /\ \E inputs \in PipelineInputs : run' = Started(inputs, disk)
    /\ log' = <<>>
    /\ UNCHANGED <<hrVars, callVars, disk, dbVars, logVars>>

\* "[k/6] Processing ..." and <family>Ingestor(FITBIT_DATA_PATH).ingest()
RunIngest ==
    /\ run.pc = "ingest"
    /\ \E out \in IngestOf(Families[run.k], run.inputs[run.k]) : run' = Ingested(run, out)
    /\ log' = Append(log, <<"processing", Families[run.k]>>)
    /\ UNCHANGED <<hrVars, callVars, disk, dbVars, logVars>>

\* writer.write(<family>_df, <file>)
RunWrite ==
    /\ run.pc = "write"
    /\ disk' = WriteDisk(disk, run.dfs[run.k], FileOf(Families[run.k]))
    /\ log' = Append(log, WriteRecord(run.dfs[run.k], FileOf(Families[run.k])))
    /\ run' = Wrote(run)
    /\ UNCHANGED <<hrVars, callVars, dbVars, logVars>>

InitRun == CallIdle /\ HRIdle /\ DiskEmpty /\ DbClosed /\ RunIdle /\ LoggingFresh

NextRun == RunStart \/ RunIngest \/ RunWrite

SpecRun == InitRun /\ [][NextRun]_vars

----------------------------------------------------------------------------
(* DuckDBManager: views over the store's files, and the queries on them. *)

\* _create_views: the views and the file each reads.
ViewNames == {"steps_daily", "heart_rate_hourly", "resting_heart_rate", "sleep_sessions",
              "zone_minutes_daily", "activities"}
ParquetFile(view_name) ==
    CASE view_name = "steps_daily" -> "steps_daily.parquet"
      [] view_name = "heart_rate_hourly" -> "heart_rate_hourly.parquet"
      [] view_name = "resting_heart_rate" -> "resting_heart_rate.parquet"
      [] view_name = "sleep_sessions" -> "sleep_sessions.parquet"
      [] view_name = "zone_minutes_daily" -> "zone_minutes_daily.parquet"
      [] view_name = "activities" -> "activities.parquet"

\* The conn property as it would be if every use created the views anew.
ViewsAfterConnRefreshed(c, v, d) ==
    v \cup {view_name \in ViewNames : Exists(d, ParquetFile(view_name))}

\* The conn property: the first use connects and creates a view for every file
\* that exists then; later uses find the connection as it is.
ViewsAfterConn(c, v, d) ==
    IF c THEN v
    ELSE v \cup {view_name \in ViewNames : Exists(d, ParquetFile(view_name))}

\* The conn property as it would be if every use connected.
OpenAfterConnAlways(c, n) == n + 1

\* The conn property: duckdb.connect is called only when _conn is None.
OpenAfterConn(c, n) == IF c THEN n ELSE n + 1

\* close: the connection is closed only when there is one.
OpenAfterClose(c, n) == IF c THEN n - 1 ELSE n

\* SELECT * FROM view: the rows of the file the view reads.
ViewRows(d, view_name) == Val(d[PathOf(ParquetFile(view_name))])

\* The views get_date_range selects the date column of.
DateRangeViews == {"steps_daily", "resting_heart_rate", "sleep_sessions",
                   "zone_minutes_daily", "activities"}

\* What get_date_range gives back: (min_date, max_date), each a date or None.
DatePair(min_date, max_date) ==
    [raised |-> "none", rows |-> <<>>, min_date |-> min_date, max_date |-> max_date]

\* get_date_range as it would be without its try/except.
GetDateRangeUncaught(v, d) ==
    IF ~(DateRangeViews \subseteq v) THEN Raised("CatalogException")
    ELSE LET dates == UNION {{ViewRows(d, w)[k].date : k \in DOMAIN ViewRows(d, w)}
                             : w \in DateRangeViews}
         IN  DatePair(Some(Min(dates)), Some(Max(dates)))

\* get_date_range, v being the views of the connection: the query fails when one
\* of its views does not exist, and any exception gives (None, None).
GetDateRange(v, d) ==
    IF ~(DateRangeViews \subseteq v) THEN DatePair(None, None)
    ELSE LET dates == UNION {{ViewRows(d, w)[k].date : k \in DOMAIN ViewRows(d, w)}
                             : w \in DateRangeViews}
         IN  DatePair(Some(Min(dates)), Some(Max(dates)))

\* The column a fetch filters on and the column it orders by.
FilterColumn(view_name) == IF view_name = "heart_rate_hourly" THEN "hour" ELSE "date"
OrderColumn(view_name) ==
    CASE view_name = "heart_rate_hourly" -> "hour"
      [] view_name = "activities" -> "start_time"
      [] OTHER -> "date"

\* A date of a query is a day number; the SQL literal '<date>' compared with a
\* timestamp column is that day's midnight.
TimestampOf(day) == day * 1440

\* get_<view>(start_date, end_date): the possible results.  A bound that is None
\* adds no condition; rows with equal keys come in any order.
Fetch(v, d, view_name, start_date, end_date) ==
    IF view_name \notin v THEN {Raised("CatalogException")}
    ELSE LET col == FilterColumn(view_name)
             Where(row) ==
                 /\ ~IsNone(start_date) => row[col] >= TimestampOf(Val(start_date))
                 /\ ~IsNone(end_date) => row[col] <= TimestampOf(Val(end_date))
         IN  {Ok(t) : t \in SortValues(SelectSeq(ViewRows(d, view_name), Where),
                                       OrderColumn(view_name))}

\* The bounds the dashboard passes.
QueryStarts == {None, Some(1)}
QueryEnds == {None, Some(1), Some(2)}

DbGetDateRange ==
    /\ op' = "db.get_date_range"
    /\ arg' = <<>>
    /\ conn' = TRUE
    /\ open_conns' = OpenAfterConn(conn, open_conns)
    /\ views' = ViewsAfterConn(conn, views, disk)
    /\ ret' = GetDateRange(views', disk)
    /\ UNCHANGED <<hrVars, disk, runVars, logVars>>

DbFetch ==
    \E view_name \in ViewNames, start_date \in QueryStarts, end_date \in QueryEnds :
        /\ op' = "db.get"
        /\ arg' = <<view_name, start_date, end_date>>
        /\ conn' = TRUE
        /\ open_conns' = OpenAfterConn(conn, open_conns)
        /\ views' = ViewsAfterConn(conn, views, disk)
        /\ ret' \in Fetch(views', disk, view_name, start_date, end_date)
        /\ UNCHANGED <<hrVars, disk, runVars, logVars>>

DbClose ==
    /\ op' = "db.close"
    /\ arg' = <<>>
    /\ ret' = Ok(<<>>)
    /\ conn' = FALSE
    /\ open_conns' = OpenAfterClose(conn, open_conns)
    /\ UNCHANGED <<hrVars, disk, views, runVars, logVars>>

InitPipeline == CallIdle /\ HRIdle /\ DiskEmpty /\ DbClosed /\ RunIdle /\ LoggingFresh

NextPipeline == RunPipeline \/ DbGetDateRange \/ DbFetch \/ DbClose

SpecPipeline == InitPipeline /\ [][NextPipeline]_vars

----------------------------------------------------------------------------
(* Steps: properties. *)

\* The value of a raw steps reading as the claim counts it: non-numeric is 0.
StepCount(r) == IF IsNone(ToNumeric(r.value)) THEN 0 ELSE Val(ToNumeric(r.value))

\* C3: for a non-empty input the output has exactly one row per distinct calendar
\* date of the input, whose total_steps is the sum of the step values of the
\* readings of that date (non-numeric counted as 0) and whose active_minutes is
\* the number of readings of that date with a value > 0.
C3_StepsDaily ==
    (op = "steps.transform" /\ arg # <<>>) =>
        /\ ret.raised = "none"
        /\ \A d \in {DateOf(arg[k].dateTime) : k \in DOMAIN arg} :
              LET on == {k \in DOMAIN arg : DateOf(arg[k].dateTime) = d}
                  rows == {n \in DOMAIN ret.rows : ret.rows[n].date = d}
              IN  /\ Cardinality(rows) = 1
                  /\ \A n \in rows :
                        /\ ret.rows[n].total_steps
                             = SumOver(on, [k \in on |-> StepCount(arg[k])])
                        /\ ret.rows[n].active_minutes
                             = Cardinality({k \in on : StepCount(arg[k]) > 0})
        /\ \A n \in DOMAIN ret.rows :
              \E k \in DOMAIN arg : DateOf(arg[k].dateTime) = ret.rows[n].date

\* C3 witness: the scenario of the specification: [100, 0, 5000] on one day and
\* [3000] on the next give (5100, 2) and (3000, 1).
C3_Witness ==
    /\ op = "steps.transform"
    /\ arg = <<[dateTime |-> 30, value |-> <<"1", "0", "0">>],
               [dateTime |-> 30, value |-> <<"0">>],
               [dateTime |-> 30, value |-> <<"5", "0", "0", "0">>],
               [dateTime |-> 1470, value |-> <<"3", "0", "0", "0">>]>>
    /\ ret = Ok(<<[date |-> 0, total_steps |-> 5100, active_minutes |-> 2],
                  [date |-> 1440, total_steps |-> 3000, active_minutes |-> 1]>>)

----------------------------------------------------------------------------
(* Sleep: properties. *)

\* The minutes a raw record declares for a stage (0 for an absent stage).
Declared(record, st) == IF IsNone(record.summary[st]) THEN 0 ELSE Val(record.summary[st])

\* C4: a record of type "stages" yields wake/light/deep/rem minutes as declared in
\* levels.summary (0 for an absent stage); a record of type "classic" or with no
\* type yields wake = awake, light = restless + asleep, deep = 0 and rem = 0; and
\* every row a transform or ingest returns with sleep_type "classic" has
\* deep_minutes = 0 and rem_minutes = 0.
C4_SleepStageMapping ==
    /\ (op = "sleep._process_session" /\ arg[1].levels # "null") =>
          /\ Len(ret.rows) = 1
          /\ arg[1].type = Some("stages") =>
                /\ ret.rows[1].wake_minutes = Declared(arg[1], "wake")
                /\ ret.rows[1].light_minutes = Declared(arg[1], "light")
                /\ ret.rows[1].deep_minutes = Declared(arg[1], "deep")
                /\ ret.rows[1].rem_minutes = Declared(arg[1], "rem")
          /\ arg[1].type \in {None, Some("classic")} =>
                /\ ret.rows[1].sleep_type = "classic"
                /\ ret.rows[1].wake_minutes = Declared(arg[1], "awake")
                /\ ret.rows[1].light_minutes
                     = Declared(arg[1], "restless") + Declared(arg[1], "asleep")
                /\ ret.rows[1].deep_minutes = 0
                /\ ret.rows[1].rem_minutes = 0
    /\ op \in {"sleep.transform", "sleep.ingest"} =>
          \A n \in DOMAIN ret.rows :
              ret.rows[n].sleep_type = "classic" =>
                  ret.rows[n].deep_minutes = 0 /\ ret.rows[n].rem_minutes = 0

\* C4 witness: a classic record with awake = 10, restless = 20, asleep = 30 that
\* also carries deep and rem entries gives 10, 50, 0, 0.
C4_Witness ==
    /\ op = "sleep._process_session"
    /\ arg[1].type = Some("classic")
    /\ \A st \in SleepStages : ~IsNone(arg[1].summary[st])
    /\ Len(ret.rows) = 1
    /\ ret.rows[1].wake_minutes = 10
    /\ ret.rows[1].light_minutes = 50
    /\ ret.rows[1].deep_minutes = 0
    /\ ret.rows[1].rem_minutes = 0

----------------------------------------------------------------------------
(* Zone minutes: properties. *)

\* The minutes a raw record holds for a zone key (0 for an absent key).
ZoneDeclared(record, key) == IF IsNone(record.zones[key]) THEN 0 ELSE Val(record.zones[key])

\* C5: on records whose value is a mapping, the output has one row per distinct
\* date; each of the four zone columns is the sum of that zone's value over all the
\* input records of the date (absent keys counted as 0); and in every row
\* total_active_minutes = fat_burn + cardio + peak, without out_of_range.
C5_ZoneMerge ==
    (op = "zone_minutes.transform" /\ arg # <<>>
        /\ \A k \in DOMAIN arg : arg[k].kind # "notdict") =>
        /\ ret.raised = "none"
        /\ {ret.rows[n].date : n \in DOMAIN ret.rows}
             = {DateOf(arg[k].dateTime) : k \in DOMAIN arg}
        /\ \A m, n \in DOMAIN ret.rows : ret.rows[m].date = ret.rows[n].date => m = n
        /\ \A n \in DOMAIN ret.rows :
              LET row == ret.rows[n]
                  on == {k \in DOMAIN arg : DateOf(arg[k].dateTime) = row.date}
                  Total(key) == SumOver(on, [k \in on |-> ZoneDeclared(arg[k], key)])
              IN  /\ row.fat_burn_minutes = Total("IN_DEFAULT_ZONE_1")
                  /\ row.cardio_minutes = Total("IN_DEFAULT_ZONE_2")
                  /\ row.peak_minutes = Total("IN_DEFAULT_ZONE_3")
                  /\ row.out_of_range_minutes = Total("BELOW_DEFAULT_ZONE_1")
                  /\ row.total_active_minutes
                       = row.fat_burn_minutes + row.cardio_minutes + row.peak_minutes

\* C5 witness: two records of one date with fat_burn 5 and 7 (and out-of-range
\* minutes) merge to fat_burn_minutes = 12.
C5_Witness ==
    /\ op = "zone_minutes.transform"
    /\ Len(arg) = 2
    /\ arg[1].dateTime = arg[2].dateTime
    /\ arg[1].zones["IN_DEFAULT_ZONE_1"] = Some(5)
    /\ arg[2].zones["IN_DEFAULT_ZONE_1"] = Some(7)
    /\ arg[1].zones["BELOW_DEFAULT_ZONE_1"] = Some(9)
    /\ ret.raised = "none"
    /\ Len(ret.rows) = 1
    /\ ret.rows[1].fat_burn_minutes = 12

----------------------------------------------------------------------------
(* Resting heart rate: properties. *)

RestingDates(t) == {DateOf(t[k].dateTime) : k \in DOMAIN t}

\* C6 as claimed: for every date, the number of output rows with that date equals
\* the number of input records with that date.
C6_RowPerRecord ==
    op = "resting_heart_rate.transform" =>
        /\ ret.raised = "none"
        /\ \A d \in RestingDates(arg) :
              Cardinality({n \in DOMAIN ret.rows : ret.rows[n].date = d})
                = Cardinality({k \in DOMAIN arg : DateOf(arg[k].dateTime) = d})

\* C6 as amended: for every date, the number of output rows with that date equals
\* the number of input records with that date whose resting heart-rate value is
\* present; same-date records are never merged.
C6_RowPerValidRecord ==
    op = "resting_heart_rate.transform" =>
        /\ ret.raised = "none"
        /\ \A d \in RestingDates(arg) :
              Cardinality({n \in DOMAIN ret.rows : ret.rows[n].date = d})
                = Cardinality({k \in DOMAIN arg :
                                 /\ DateOf(arg[k].dateTime) = d
                                 /\ arg[k].isDict
                                 /\ ~IsNone(arg[k].value)})
        /\ \A n \in DOMAIN ret.rows : ret.rows[n].date \in RestingDates(arg)

\* C6 witness: three records of one date, two with a value and one without, give
\* two rows of that date: the two are not merged and the third is dropped.
C6_Witness ==
    /\ op = "resting_heart_rate.transform"
    /\ Len(arg) = 3
    /\ \A k \in DOMAIN arg : arg[k].dateTime = 30 /\ arg[k].isDict
    /\ arg[1].value = Some(62671)
    /\ arg[2].value = Some(58250)
    /\ arg[3].value = None
    /\ ret.raised = "none"
    /\ Len(ret.rows) = 2
    /\ ret.rows[1].date = 0 /\ ret.rows[2].date = 0

----------------------------------------------------------------------------
(* Activities: properties. *)

\* The minutes of the entry of a record's heartRateZones named zone_name; 0 when
\* heartRateZones is None, missing, not a list, or has no entry of that name.
ExpectedZone(record, zone_name) ==
    LET hrz == record.heartRateZones
        named == {k \in DOMAIN hrz.zones :
                    hrz.zones[k].isDict /\ hrz.zones[k].name = zone_name}
    IN  IF hrz.kind # "list" \/ named = {} THEN 0
        ELSE FillNa0(hrz.zones[Min(named)].minutes)

\* C7 as claimed: on records that all carry both durations, the transform raises
\* nothing and each row's fat_burn, cardio and peak minutes are those of the named
\* entry of its record's heartRateZones, 0 when heartRateZones is None, missing,
\* not a list or without such an entry.
C7_ZoneExtraction ==
    (op = "activities.transform" /\ arg # <<>>
        /\ \A k \in DOMAIN arg : arg[k].activeDuration # None /\ arg[k].duration # None) =>
        /\ ret.raised = "none"
        /\ \E p \in Perms(Len(arg)) :
              \A k \in DOMAIN arg :
                  /\ ret.rows[k].start_time = arg[p[k]].startTime
                  /\ ret.rows[k].fat_burn_minutes = ExpectedZone(arg[p[k]], "Fat Burn")
                  /\ ret.rows[k].cardio_minutes = ExpectedZone(arg[p[k]], "Cardio")
                  /\ ret.rows[k].peak_minutes = ExpectedZone(arg[p[k]], "Peak")

\* C8 as claimed: on records that all carry a heartRateZones key and at least one
\* of the two durations, the transform raises nothing and each row's
\* duration_minutes is activeDuration / 60000 when the record has activeDuration
\* and duration / 60000 when it has not, also when no record has activeDuration.
C8_DurationFallback ==
    (op = "activities.transform" /\ arg # <<>>
        /\ \A k \in DOMAIN arg :
              /\ arg[k].heartRateZones.kind # "absent"
              /\ arg[k].activeDuration # None \/ arg[k].duration # None) =>
        /\ ret.raised = "none"
        /\ \E p \in Perms(Len(arg)) :
              \A k \in DOMAIN arg :
                  /\ ret.rows[k].start_time = arg[p[k]].startTime
                  /\ ret.rows[k].duration_minutes
                       = IF arg[p[k]].activeDuration # None
                         THEN Some(Val(arg[p[k]].activeDuration) \div 60)
                         ELSE Some(Val(arg[p[k]].duration) \div 60)

----------------------------------------------------------------------------
(* Empty input. *)

TransformOps == {"steps.transform", "heart_rate.transform", "resting_heart_rate.transform",
                 "sleep.transform", "zone_minutes.transform", "activities.transform"}
IngestOps == {"steps.ingest", "heart_rate.ingest", "resting_heart_rate.ingest",
              "sleep.ingest", "zone_minutes.ingest", "activities.ingest"}

\* The records of the files of fl that load.
LoadedRecords(fl) == LoadBatch(fl)
\* No file of fl fails with an error the loader lets through.
LoadsQuietly(fl) == \A k \in DOMAIN fl : fl[k].ok \/ fl[k].err \in {"JSONDecodeError", "OSError"}

----------------------------------------------------------------------------
(* C10 *)

----------------------------------------------------------------------------
(* The record loader: properties. *)

\* The records of the files of a listing that parse, file after file in ascending
\* order of name.
ParsedInOrder(glob) ==
    LET sorted == SortedSeq({glob[k].name : k \in DOMAIN glob})
        DataOf(name) == LET e == CHOOSE x \in Range(glob) : x.name = name
                        IN  IF e.file.ok THEN e.file.data ELSE <<>>
    IN  Concat([k \in DOMAIN sorted |-> DataOf(sorted[k])])

\* C11, as the specification states it: load_all_files never aborts on a file
\* that fails to load (malformed encoding, invalid JSON, I/O error): for any mix of
\* good and bad files it returns the concatenation, in ascending filename order, of
\* the record lists of the files that parse.
C11_NeverAborts ==
    op = "base.load_all_files" => ret = Ok(ParsedInOrder(arg))

\* C12, as the specification states it: load_all_files returns the deduplicated
\* union of the parsed records: every parsed record appears, and appears exactly
\* once, also when it occurs in two files or twice in one file.
C12_Deduplicated ==
    (op = "base.load_all_files" /\ ret.raised = "none") =>
        /\ Range(ret.rows) = Range(ParsedInOrder(arg))
        /\ \A a, b \in DOMAIN ret.rows : ret.rows[a] = ret.rows[b] => a = b

----------------------------------------------------------------------------
(* Failures inside a batch. *)

\* The files of fs that load.
LoadingFiles(fs) == SelectSeq(fs, LAMBDA f : f.ok)

\* C19: a file that fails to load inside a batch is skipped and the batch
\* continues: the table of a finished run equals the table ingest computes, with
\* the same batch size, on the same files with the failing ones removed.
C19_FailingFileSkipped ==
    hr_pc = "done" => hr_result = HRIngest(LoadingFiles(files), BATCH_SIZE)

\* C19 witness: a finished run of three files in batches of two: the first batch
\* starts with a failing file and goes on with a file that holds readings, the
\* second batch is made only of a failing file.
C19_Witness ==
    /\ hr_pc = "done"
    /\ BATCH_SIZE = 2
    /\ Len(files) = 3
    /\ ~files[1].ok /\ files[2].ok /\ ~files[3].ok
    /\ Len(files[2].data) = 2
    /\ hr_result # <<>>

\* The loaded records of a sleep ingest that process without error: those whose
\* levels is not null.
SleepProcessable(fl) == SelectSeq(LoadedRecords(fl), LAMBDA r : r.levels # "null")

----------------------------------------------------------------------------
(* The store over successive runs, and the queries: properties. *)

\* C13, as the specification states it: after a completed run each family's file
\* holds exactly the table that run computed and nothing from an earlier run; a
\* family whose table the run computed empty has nothing stored.
C13_OverwrittenWholesale ==
    (op = "run_pipeline" /\ ret.raised = "none") =>
        \A k \in DOMAIN Families :
            disk[PathOf(FileOf(Families[k]))]
              = IF ret.dfs[k] = <<>> THEN None ELSE Some(ret.dfs[k])

\* The views of the connection are those of the files that exist.
ViewsCurrent == views = {w \in ViewNames : Exists(disk, ParquetFile(w))}

\* C14, as the specification states it: a per-family fetch against a family
\* whose file does not exist does not raise and returns an empty result set.
C14_AbsentFileEmptyResult ==
    (op = "db.get" /\ ~Exists(disk, ParquetFile(arg[1]))) => ret = Ok(<<>>)

\* The dates stored for the date families whose files exist.
StoredDates ==
    UNION {{ViewRows(disk, w)[k].date : k \in DOMAIN ViewRows(disk, w)}
           : w \in {x \in DateRangeViews : Exists(disk, ParquetFile(x))}}

\* C15, as the specification states it: in get_date_range a family whose file is
\* absent contributes no bound and nothing else: whenever the file of at least
\* one date family exists (and the connection knows the files that exist), the
\* result is the minimum and maximum date over the families whose files exist.
C15_AbsentFamilyNoBound ==
    (op = "db.get_date_range" /\ ViewsCurrent /\ StoredDates # {}) =>
        ret = DatePair(Some(Min(StoredDates)), Some(Max(StoredDates)))

\* C16, as the specification states it: the range of get_date_range covers the
\* heart-rate table: when all six files exist, no stored hour is earlier than
\* min_date or on a later day than max_date.
C16_HeartRateInRange ==
    (op = "db.get_date_range" /\ ViewsCurrent /\ views = ViewNames) =>
        /\ ~IsNone(ret.min_date) /\ ~IsNone(ret.max_date)
        /\ \A k \in DOMAIN ViewRows(disk, "heart_rate_hourly") :
              LET hour == ViewRows(disk, "heart_rate_hourly")[k].hour
              IN  Val(ret.min_date) <= hour /\ DateOf(hour) <= Val(ret.max_date)

\* C17: get_date_range never raises, and returns (None, None) when no family
\* file exists (the store was never written, or every family was empty in every
\* run).
C17_NoDataSentinel ==
    op = "db.get_date_range" =>
        /\ ret.raised = "none"
        /\ (\A path \in Paths : IsNone(disk[path])) => ret = DatePair(None, None)

\* C17 witness: get_date_range on the store before anything is written: the
\* connection is opened, no view is created, and the pair is (None, None).
C17_Witness ==
    /\ op = "db.get_date_range"
    /\ \A path \in Paths : IsNone(disk[path])
    /\ conn = TRUE
    /\ views = {}
    /\ ret = DatePair(None, None)

\* The calendar day of a stored row of a view, and whether it lies in the
\* inclusive range of days [start_date, end_date].
DayOfRow(view_name, row) ==
    IF view_name = "heart_rate_hourly" THEN DateOf(row.hour) ELSE DateOf(row.date)
InDays(view_name, row, start_date, end_date) ==
    /\ ~IsNone(start_date) => DayOfRow(view_name, row) >= Val(start_date) * 1440
    /\ ~IsNone(end_date) => DayOfRow(view_name, row) <= Val(end_date) * 1440

\* C18, as the specification states it: a per-family fetch returns exactly the
\* stored rows whose calendar date lies in the inclusive range [start_date,
\* end_date], an omitted bound not restricting, sorted by the family's primary
\* date/time column; for heart_rate_hourly every hour of the end date is included.
C18_InclusiveDateRange ==
    (op = "db.get" /\ ret.raised = "none") =>
        LET stored == ViewRows(disk, arg[1])
            wanted == SelectSeq(stored, LAMBDA row : InDays(arg[1], row, arg[2], arg[3]))
            by == IF arg[1] = "heart_rate_hourly" THEN "hour"
                  ELSE IF arg[1] = "activities" THEN "start_time" ELSE "date"
        IN  /\ Len(ret.rows) = Len(wanted)
            /\ \E p \in Perms(Len(wanted)) :
                  \A k \in DOMAIN wanted : ret.rows[k] = wanted[p[k]]
            /\ \A k \in 1..(Len(ret.rows) - 1) : ret.rows[k][by] <= ret.rows[k + 1][by]

----------------------------------------------------------------------------
(* Malformed nested fields. *)

\* C21, as the specification states it: a missing or malformed nested field never
\* raises out of a transformer.  A zone-minutes record whose value is no mapping
\* or lacks valuesInZones counts 0 for all four zones (its date still has a row);
\* a heart-rate reading whose value is no mapping or lacks bpm is dropped; a
\* resting-heart-rate record whose value is no mapping or lacks value is dropped;
\* the other records are transformed.
C21_MalformedFieldDefault ==
    /\ (op = "zone_minutes.transform" /\ arg # <<>>) =>
          /\ ret.raised = "none"
          /\ {ret.rows[n].date : n \in DOMAIN ret.rows}
               = {DateOf(arg[k].dateTime) : k \in DOMAIN arg}
          /\ \A n \in DOMAIN ret.rows :
                LET on == {k \in DOMAIN arg : DateOf(arg[k].dateTime) = ret.rows[n].date}
                IN  ret.rows[n].fat_burn_minutes
                      = SumOver(on, [k \in on |-> ZoneDeclared(arg[k], "IN_DEFAULT_ZONE_1")])
    /\ op = "heart_rate.transform" =>
          /\ ret.raised = "none"
          /\ SumOver(DOMAIN ret.rows, [n \in DOMAIN ret.rows |-> ret.rows[n].bpm_count])
               = Cardinality({k \in DOMAIN arg : arg[k].value.isDict
                                                  /\ ~IsNone(arg[k].value.bpm)})
    /\ op = "resting_heart_rate.transform" =>
          /\ ret.raised = "none"
          /\ Len(ret.rows) = Cardinality({k \in DOMAIN arg : arg[k].isDict
                                                             /\ ~IsNone(arg[k].value)})

----------------------------------------------------------------------------
(* Sleep: the schema version of a row. *)

\* C22, as the specification states it: every session and every row the sleep
\* ingestor produces has sleep_type "classic" or "stages", whatever type the raw
\* record declares; a record without a type gets "classic".
C22_SleepTypeEnum ==
    /\ op \in {"sleep._process_session", "sleep.ingest", "sleep.transform"} =>
          \A n \in DOMAIN ret.rows : ret.rows[n].sleep_type \in {"classic", "stages"}
    /\ (op = "sleep._process_session" /\ IsNone(arg[1].type)) =>
          \A n \in DOMAIN ret.rows : ret.rows[n].sleep_type = "classic"

----------------------------------------------------------------------------
(* Heart rate: the raw state held during the batch loop. *)

\* The files of the batch the loop is at.
CurrentBatch == BatchFiles(files, i, BATCH_SIZE)

\* C23, as the specification states it: the batches are processed one after the
\* other with bounded raw state.  When a batch has been loaded, the raw records
\* held are those of the files of that batch only: batch_data holds the records of
\* at most BATCH_SIZE files, no raw table of an earlier batch is still bound, and
\* data is the list of a file of this batch if it is bound at all; only partial
\* aggregates, one row per hour per batch, accumulate.
C23_RawStateBounded ==
    /\ hr_pc = "loaded" =>
          /\ Len(CurrentBatch) <= BATCH_SIZE
          /\ batch_data = LoadBatch(CurrentBatch)
          /\ raw_df = <<>>
          /\ file_data = <<>>
               \/ \E k \in DOMAIN CurrentBatch :
                     CurrentBatch[k].ok /\ CurrentBatch[k].data = file_data
    /\ \A b \in DOMAIN all_hourly :
          \A m, n \in DOMAIN all_hourly[b] :
              all_hourly[b][m].hour = all_hourly[b][n].hour => m = n

----------------------------------------------------------------------------
(* run_pipeline: the order of its steps. *)

\* The number of "wrote" records the run logged for a file.
TimesWritten(filename) ==
    Cardinality({j \in DOMAIN log : log[j] = <<"wrote", filename>>})

\* C24: run_pipeline processes the families in the fixed order steps, heart rate,
\* resting heart rate, sleep, zone minutes, activities: the records of a run
\* alternate between the ingest of the next family and the writer call for that
\* family's table, so each write comes after its family's ingest and before the
\* next family's; and a run in which nothing raises ends with all six families
\* ingested, each non-empty table written exactly once and in its file, and no
\* empty table written.
C24_FixedFamilyOrder ==
    /\ \A j \in DOMAIN log :
          IF j % 2 = 1
          THEN log[j] = <<"processing", Families[(j + 1) \div 2]>>
          ELSE /\ log[j][1] \in {"wrote", "skipped"}
               /\ log[j][2] = FileOf(Families[j \div 2])
    /\ run.pc = "write" => Len(log) = 2 * run.k - 1 /\ Len(run.dfs) = run.k
    /\ run.pc = "ingest" => Len(log) = 2 * (run.k - 1) /\ Len(run.dfs) = run.k - 1
    /\ run.pc = "done" =>
          /\ Len(run.dfs) = Len(Families)
          /\ Len(log) = 2 * Len(Families)
          /\ \A k \in DOMAIN Families :
                IF run.dfs[k] = <<>>
                THEN TimesWritten(FileOf(Families[k])) = 0
                ELSE /\ TimesWritten(FileOf(Families[k])) = 1
                     /\ disk[PathOf(FileOf(Families[k]))] = Some(run.dfs[k])

\* C24 witness: a completed run over an export directory with files of all six
\* families: six tables written, one after the other.
C24_Witness ==
    /\ run.pc = "done"
    /\ \A k \in DOMAIN Families : run.dfs[k] # <<>>
    /\ \A k \in DOMAIN Families : log[2 * k] = <<"wrote", FileOf(Families[k])>>

----------------------------------------------------------------------------
(* The order of the output tables. *)

\* The primary date/time key of the output of a transformer.
KeyOf(family_op) ==
    IF family_op \in {"heart_rate.transform", "heart_rate.ingest"} THEN "hour"
    ELSE IF family_op \in {"activities.transform", "activities.ingest"} THEN "start_time"
    ELSE "date"

\* C25: every output of a transformer (of transform and of ingest) is sorted
\* ascending by its primary key, row n of the table being the row of index n - 1;
\* in the steps, zone-minutes and heart-rate outputs no two rows share a key, also
\* when a date or an hour occurs in several files or batches.
C25_SortedByKey ==
    (op \in TransformOps \cup IngestOps /\ ret.raised = "none") =>
        /\ \A n \in 1..(Len(ret.rows) - 1) :
              ret.rows[n][KeyOf(op)] <= ret.rows[n + 1][KeyOf(op)]
        /\ op \in {"steps.transform", "steps.ingest", "zone_minutes.transform",
                   "zone_minutes.ingest", "heart_rate.transform", "heart_rate.ingest"} =>
              \A m, n \in DOMAIN ret.rows :
                  ret.rows[m][KeyOf(op)] = ret.rows[n][KeyOf(op)] => m = n

\* C25 witness: resting-heart-rate records given latest date first come out
\* earliest date first.
C25_Witness ==
    /\ op = "resting_heart_rate.transform"
    /\ Len(arg) = 2
    /\ arg[1].dateTime > arg[2].dateTime
    /\ ret.raised = "none"
    /\ Len(ret.rows) = 2
    /\ ret.rows[1].date < ret.rows[2].date

----------------------------------------------------------------------------
(* The logging configuration (utils/logger.py). *)

\* The levels of the logging module that the calls use, and their numbers.
Levels == {"DEBUG", "INFO", "WARNING"}
LevelNo == [DEBUG |-> 10, INFO |-> 20, WARNING |-> 30]
DEFAULT_LOG_LEVEL == "INFO"

\* The names the modules ask a logger for (logger = get_logger(__name__)).
LoggerNames == {"__main__", "src.ingest.base", "src.storage.parquet_writer",
                "src.storage.duckdb_manager"}

\* The two handlers configure_logging installs: the console handler at INFO,
\* then the rotating file handler at the level asked for.
ConsoleHandler == [kind |-> "console", level |-> "INFO"]
FileHandler(level) == [kind |-> "file", level |-> level]
\* A handler some host program installed on the root logger before.
HostHandler == [kind |-> "host", level |-> "NOTSET"]

\* configure_logging as it would be without the test of _logging_configured.
ConfiguredAlways(configured, level_now, handlers_now, level) ==
    [level |-> level, handlers |-> <<ConsoleHandler, FileHandler(level)>>,
     configures |-> TRUE]

\* configure_logging(level): the root logger's level and handlers after the call,
\* and whether the call configured anything.
Configured(configured, level_now, handlers_now, level) ==
    IF configured
    THEN [level |-> level_now, handlers |-> handlers_now, configures |-> FALSE]
    ELSE [level |-> level, handlers |-> <<ConsoleHandler, FileHandler(level)>>,
          configures |-> TRUE]

\* root_logger.info("Logging configured ...") after a configuration: the root
\* logger passes the record if its level lets INFO through, and then each
\* handler whose level lets it through writes it.
StartupRecords(after) ==
    IF after.configures /\ LevelNo[after.level] <= LevelNo["INFO"]
    THEN <<<<"console", "Logging configured", after.level>>,
           <<"file", "Logging configured", after.level>>>>
    ELSE <<>>

\* configure_logging(level)
ConfigureLogging ==
    \E level \in Levels :
        LET after == Configured(logging_configured, root_level, root_handlers, level)
        IN  /\ op' = "configure_logging"
            /\ arg' = <<level>>
            /\ ret' = Ok(<<>>)
            /\ root_level' = after.level
            /\ root_handlers' = after.handlers
            /\ logging_configured' = TRUE
            /\ log' = log \o StartupRecords(after)
            /\ UNCHANGED <<loggers, hrVars, disk, dbVars, run>>

\* get_logger(name): configure_logging() with the default level, then
\* logging.getLogger(name).
GetLogger ==
    \E name \in LoggerNames :
        LET after == Configured(logging_configured, root_level, root_handlers,
                                DEFAULT_LOG_LEVEL)
        IN  /\ op' = "get_logger"
            /\ arg' = <<name>>
            /\ ret' = Ok(<<name>>)
            /\ root_level' = after.level
            /\ root_handlers' = after.handlers
            /\ logging_configured' = TRUE
            /\ log' = log \o StartupRecords(after)
            /\ loggers' = loggers \cup {name}
            /\ UNCHANGED <<hrVars, disk, dbVars, run>>

\* Before logger.py has configured anything: the logging module as Python
\* starts it, or as a host program left it.
InitLog ==
    /\ CallIdle /\ HRIdle /\ DiskEmpty /\ DbClosed /\ RunIdle
    /\ logging_configured = FALSE
    /\ loggers = {}
    /\ \/ root_level = "WARNING" /\ root_handlers = <<>>
       \/ root_level = "DEBUG" /\ root_handlers = <<HostHandler>>

NextLog == ConfigureLogging \/ GetLogger

SpecLog == InitLog /\ [][NextLog]_vars

\* C26: over any sequence of configure_logging and get_logger calls, the first
\* call that reaches configure_logging clears the root logger's handlers,
\* installs exactly one console and one file handler and sets the level; every
\* later call leaves the handlers and the level as they are.
C26_ConfiguredOnce ==
    [][/\ logging_configured =>
            /\ logging_configured'
            /\ root_handlers' = root_handlers
            /\ root_level' = root_level
       /\ ~logging_configured =>
            /\ logging_configured'
            /\ root_level' = (IF op' = "configure_logging" THEN arg'[1]
                              ELSE DEFAULT_LOG_LEVEL)
            /\ root_handlers' = <<ConsoleHandler, FileHandler(root_level')>>]_vars

\* C26 witness: configure_logging(DEBUG) called after get_logger had configured
\* the root logger at INFO: the level is still INFO, the handlers still two.
C26_Witness ==
    /\ op = "configure_logging"
    /\ arg = <<"DEBUG">>
    /\ logging_configured
    /\ loggers # {}
    /\ root_level = "INFO"
    /\ root_handlers = <<ConsoleHandler, FileHandler("INFO")>>

----------------------------------------------------------------------------
(* The connection of the DuckDBManager: properties. *)

\* The views _create_views creates on the store d: one for every file that exists.
ViewsOfFiles(d) == {w \in ViewNames : Exists(d, ParquetFile(w))}

\* A step that is a call of a query method, which reads the conn property.
ConnAccess == op' \in {"db.get", "db.get_date_range"}

\* C27: the manager holds at most one open connection.  An access while there is
\* none (after construction or after close) opens exactly one and creates the
\* views of the files that exist, once; an access while there is one leaves the
\* connection and the views as they are; close with no connection does nothing.
C27_OneConnection ==
    [][/\ open_conns' \in {0, 1}
       /\ conn' <=> open_conns' = 1
       /\ (ConnAccess /\ ~conn) =>
             /\ conn'
             /\ open_conns' = open_conns + 1
             /\ views' = views \cup ViewsOfFiles(disk)
       /\ (ConnAccess /\ conn) =>
             /\ conn'
             /\ open_conns' = open_conns
             /\ views' = views
       /\ (op' = "db.close" /\ ~conn) => UNCHANGED dbVars
       /\ (op' = "db.close" /\ conn) => (~conn' /\ open_conns' = 0)]_vars

\* C27 witness: a manager that was used and then closed, on a store with files.
C27_Witness ==
    /\ op = "db.close"
    /\ ~conn
    /\ open_conns = 0
    /\ views # {}
    /\ views = ViewsOfFiles(disk)

\* C28: the views of an open manager are those of the moment the connection was
\* opened.  While it stays open no view is added, whatever the pipeline writes: a
\* fetch of a family whose file exists but was written after the opening fails
\* with a catalog error, and get_date_range, if a date family is in that case,
\* reports no date at all.  Only an access after close creates the missing views.
C28_ViewsFixedAtOpen ==
    [][/\ (conn /\ conn') => views' = views
       /\ (conn' /\ op' = "db.get" /\ arg'[1] \notin views') =>
             ret' = Raised("CatalogException")
       /\ (conn' /\ op' = "db.get_date_range" /\ ~(DateRangeViews \subseteq views')) =>
             ret' = DatePair(None, None)
       /\ (~conn /\ conn') => ViewsOfFiles(disk) \subseteq views']_vars

\* C28 witness: a fetch of a family whose file the pipeline wrote after the
\* connection was opened.
C28_Witness ==
    /\ op = "db.get"
    /\ conn
    /\ Exists(disk, ParquetFile(arg[1]))
    /\ arg[1] \notin views
    /\ ret = Raised("CatalogException")

----------------------------------------------------------------------------
(* Heart rate: the batches of the file list. *)

\* ceil(n / size)
CeilDiv(n, size) == (n + size - 1) \div size

\* The batches ingest has formed when the loop index is at start: those that
\* begin at 0, BATCH_SIZE, 2 * BATCH_SIZE, ... below start.
BatchesBefore(start) ==
    [k \in 1..CeilDiv(start, BATCH_SIZE) |-> BatchFiles(files, (k - 1) * BATCH_SIZE, BATCH_SIZE)]

\* The batches partition the list into consecutive runs of BATCH_SIZE files, the
\* last one of 1..BATCH_SIZE files.
BatchesPartition ==
    /\ i % BATCH_SIZE = 0
    /\ hr_pc = "loaded" =>
          /\ i < Len(files)
          /\ CurrentBatch = [k \in 1..Len(CurrentBatch) |-> files[i + k]]
          /\ Len(CurrentBatch) \in 1..BATCH_SIZE
          /\ i + BATCH_SIZE < Len(files) => Len(CurrentBatch) = BATCH_SIZE
          /\ Len(CurrentBatch) < BATCH_SIZE => i + Len(CurrentBatch) = Len(files)
          /\ Concat(BatchesBefore(i)) = SubSeq(files, 1, i)
    /\ (hr_pc = "done" /\ files # <<>>) =>
          /\ Len(BatchesBefore(i)) = CeilDiv(Len(files), BATCH_SIZE)
          /\ Concat(BatchesBefore(i)) = files
          /\ \A k \in 1..(Len(BatchesBefore(i)) - 1) :
                Len(BatchesBefore(i)[k]) = BATCH_SIZE
          /\ Len(BatchesBefore(i)[Len(BatchesBefore(i))]) \in 1..BATCH_SIZE

\* C29: ingest cuts the file list into consecutive batches: every file is in
\* exactly one batch, every batch but the last has BATCH_SIZE files, the last has
\* between 1 and BATCH_SIZE, there are ceil(n / BATCH_SIZE) batches, and the loop
\* comes to its end.
C29_BatchPartition == []BatchesPartition /\ <>(hr_pc = "done")

\* C29 witness: the last batch of a list whose length is no multiple of
\* BATCH_SIZE is being processed: it is shorter than the batch before it.
C29_Witness ==
    /\ hr_pc = "loaded"
    /\ 1 < BATCH_SIZE
    /\ BATCH_SIZE <= i
    /\ Len(files) = i + 1
    /\ Len(CurrentBatch) = 1

----------------------------------------------------------------------------
(* run_pipeline: the store a run leaves when it raises. *)

\* The file of the j-th family, in the store d.
FamilyFile(d, j) == d[PathOf(FileOf(Families[j]))]

\* The rows the store d holds for the j-th family: none when it has no file.
FamilyRows(d, j) == IF IsNone(FamilyFile(d, j)) THEN <<>> ELSE Val(FamilyFile(d, j))

\* C30, as the specification states it: run_pipeline is fail-stop with visible
\* partial state.  When the ingest of the k-th family has raised, the files of
\* the families 1..k-1 hold the tables this run computed, the files of the
\* families k..6 are as they were before the run, and no later family has been
\* ingested or written.  (A family without a file counts as holding no rows.)
C30_FailStopPartialStore ==
    run.pc = "raised" =>
        /\ Len(run.dfs) = run.k - 1
        /\ Len(log) = 2 * run.k - 1
        /\ \A j \in 1..(run.k - 1) : FamilyRows(disk, j) = run.dfs[j]
        /\ \A j \in run.k..Len(Families) : FamilyFile(disk, j) = FamilyFile(run.before, j)

====
